---- MODULE Spec2Model ----
(***************************************************************************)
(* A model of hltool (src/hltool.py): the VFS archive container, the       *)
(* orchestrator that extracts and rebuilds it, the record codecs and the   *)
(* GBM image codec.                                                        *)
(*                                                                         *)
(* Bytes are integers 0..255, byte strings are sequences of them.  A path  *)
(* is the sequence of its ASCII codes.  A 32-bit word that does not fit    *)
(* TLC's integers (a path hash) is kept as its four little-endian bytes,   *)
(* which is also how struct.pack('<I') lays it out.                        *)
(***************************************************************************)
EXTENDS Integers, Sequences, FiniteSets, TLC

VARIABLES
    vfs_fd,     \* the bytes of the archive handed to extract
    meta,       \* base_dir/vfs.json: "none" or [version, raw_only]
    raw,        \* the tree base_dir/raw
    tmp,        \* the tree base_dir/.tmp
    tmp_found,  \* the tree .tmp held when create began
    sidecars,   \* base_dir/common_text/<target>.json: target -> document
    out_fd,     \* the bytes create wrote to the archive
    path_list,  \* VFSProcessor.assemble's path_list of the create
    extracted,  \* "no", or how extract ended: "ok", "failed"
    created,    \* "no", or how create ended: "ok", "failed"
    pascal,     \* a run of write_pascal_array and read_pascal_array on one file
    record,     \* a run of a record processor's disassemble and assemble
    gbm,        \* a run of GbmProcessor's disassemble and assemble
    hasher,     \* a run of VFSProcessor.hash on one path
    item,       \* one ItemProcessor instance and the calls made on it
    encoder,    \* a run of GbmImg.from_png, save, open and to_png on one raster
    packer,     \* a run of GbmImg.save and GbmImg.open on one image object
    legacy,     \* calls of decode_str and encode_str and the warning counter
    cli,        \* a run of main(): its arguments, stdout, stderr and n_warn
    writer      \* one call of a length-prefixed writer on a new file

\* The state of the orchestrator and the state of the codec runs.
hl5_vars == <<vfs_fd, meta, raw, tmp, tmp_found, sidecars, out_fd, path_list, extracted,
              created>>

codec_vars == <<pascal, record, gbm, hasher, item, encoder, packer, legacy, cli, writer>>

vars == <<hl5_vars, codec_vars>>

----------------------------------------------------------------------------
(* Bounds of the model.                                                    *)

MaxEntries == 2     \* non-manifest entries of an input archive
MaxManifest == 2    \* paths of an input archive's manifest

----------------------------------------------------------------------------
(* Sequences and bytes.                                                    *)

Range(s) == {s[i] : i \in 1..Len(s)}

\* The concatenation of a sequence of sequences (halved to stay shallow).
RECURSIVE Concat(_)
Concat(ss) ==
    IF ss = <<>> THEN <<>>
    ELSE IF Len(ss) = 1 THEN ss[1]
    ELSE LET half == Len(ss) \div 2
         IN  Concat(SubSeq(ss, 1, half)) \o Concat(SubSeq(ss, half + 1, Len(ss)))

Min(a, b) == IF a < b THEN a ELSE b

\* Every sequence over S of length at most n.
SeqsUpTo(S, n) == UNION {[1..k -> S] : k \in 0..n}

\* Every ordering of a finite set, as sequences without repetition.
RECURSIVE Orderings(_)
Orderings(S) ==
    IF S = {} THEN {<<>>}
    ELSE UNION {{<<x>> \o t : t \in Orderings(S \ {x})} : x \in S}

\* struct.pack('<I', n) for 0 <= n < 2^31.
write_le32_bytes(n) ==
    <<n % 256, (n \div 256) % 256, (n \div 65536) % 256, (n \div 16777216) % 256>>

\* struct.pack('<H', n); struct.error when n does not fit.
write_le16_bytes(n) == <<n % 256, (n \div 256) % 256>>

\* The largest value kept for a u32 read from a stream.
U32Sat == 2147483647

\* struct.unpack('<I') of four bytes.  A value of 2^31 or more is kept as
\* U32Sat: it is only ever used as a size or a count over a stream far
\* shorter than that, where every such value behaves alike.
le32_value(b) ==
    IF b[4] >= 128 THEN U32Sat
    ELSE b[1] + 256 * b[2] + 65536 * b[3] + 16777216 * b[4]

le16_value(b) == b[1] + 256 * b[2]

----------------------------------------------------------------------------
(* VFSProcessor.hash: DJB2 over the ASCII bytes of the path, 32 bits wide. *)

\* Mutant: the accumulator is shifted by four bits.
hash_step_shift_4(acc, c) ==
    LET t1 == acc[1] + c + acc[1] * 16
        t2 == acc[2] + acc[2] * 16 + (t1 \div 256)
        t3 == acc[3] + acc[3] * 16 + (t2 \div 256)
        t4 == acc[4] + acc[4] * 16 + (t3 \div 256)
    IN  <<t1 % 256, t2 % 256, t3 % 256, t4 % 256>>

\* acc += c + (acc << 5); acc &= 0xffffffff, on the little-endian bytes of acc.
hash_step(acc, c) ==
    LET t1 == acc[1] + c + acc[1] * 32
        t2 == acc[2] + acc[2] * 32 + (t1 \div 256)
        t3 == acc[3] + acc[3] * 32 + (t2 \div 256)
        t4 == acc[4] + acc[4] * 32 + (t3 \div 256)
    IN  <<t1 % 256, t2 % 256, t3 % 256, t4 % 256>>

RECURSIVE hash_from(_, _)
hash_from(acc, string) ==
    IF string = <<>> THEN acc
    ELSE hash_from(hash_step(acc, Head(string)), Tail(string))

\* acc = 0x1505
hash(string) == hash_from(<<5, 21, 0, 0>>, string)

\* VFSProcessor.MANIFEST_PATH_HASH = 0xbc909d54
MANIFEST_PATH_HASH == <<84, 157, 144, 188>>

\* PROG_VERSION
PROG_VERSION == "2.0.0"

----------------------------------------------------------------------------
(* String tables: the manifest's payload.                                  *)

\* write_strtab: the u32 count, then every string followed by a NUL.
write_strtab(strings) ==
    write_le32_bytes(Len(strings))
        \o Concat([i \in 1..Len(strings) |-> strings[i] \o <<0>>])

\* The strings loop of read_strtab: n strings, each read byte by byte with
\* strict_read up to its NUL and decoded as ASCII.  Running out of bytes
\* (IOError) or a byte above 127 (UnicodeDecodeError) ends the run.
RECURSIVE read_strtab_strings(_, _, _, _)
read_strtab_strings(b, pos, n, strings) ==
    IF n = 0 THEN [ok |-> TRUE, strings |-> strings]
    ELSE LET nuls == {i \in (pos + 1)..Len(b) : b[i] = 0}
         IN  IF nuls = {} THEN [ok |-> FALSE, strings |-> strings]
             ELSE LET nul == CHOOSE i \in nuls : \A j \in nuls : i <= j
                      str_b == SubSeq(b, pos + 1, nul - 1)
                  IN  IF \E i \in 1..Len(str_b) : str_b[i] > 127
                      THEN [ok |-> FALSE, strings |-> strings]
                      ELSE read_strtab_strings(b, nul, n - 1, Append(strings, str_b))

\* read_strtab on the stream b positioned at offset pos (0-based).
read_strtab(b, pos) ==
    IF pos + 4 > Len(b) THEN [ok |-> FALSE, strings |-> <<>>]
    ELSE read_strtab_strings(b, pos + 4,
                             le32_value(SubSeq(b, pos + 1, pos + 4)), <<>>)

----------------------------------------------------------------------------
(* The archive stream.                                                     *)

\* Mutant: the header's size is that of the file less one.
append_to_vfs_short_size(fhash, data) ==
    fhash \o write_le32_bytes(IF data = <<>> THEN 0 ELSE Len(data) - 1) \o data

\* append_to_vfs: the header (hash, size) and the file's bytes.
append_to_vfs(fhash, data) == fhash \o write_le32_bytes(Len(data)) \o data

\* VFSProcessor.get_vfs_data: scan the headers from pos, the later entry of
\* a hash replacing the earlier one; a header that cannot be read whole
\* ends the scan, and so does a seek past the end.
RECURSIVE get_vfs_data_from(_, _, _)
get_vfs_data_from(b, pos, data) ==
    IF pos + 8 > Len(b) THEN data
    ELSE LET path_hash == SubSeq(b, pos + 1, pos + 4)
             file_size == le32_value(SubSeq(b, pos + 5, pos + 8))
             offset == pos + 8
             entry == path_hash :> [file_size |-> file_size, offset |-> offset]
         IN  IF file_size > Len(b) - offset THEN entry @@ data
             ELSE get_vfs_data_from(b, offset + file_size, entry @@ data)

get_vfs_data(b) == get_vfs_data_from(b, 0, [h \in {} |-> 0])

\* Mutant: the read without the seek to the entry's offset.
read_at_no_seek(b, offset, file_size) == SubSeq(b, 1, Min(file_size, Len(b)))

\* vfs_fd.seek(offset); vfs_fd.read(file_size): what is there, at most.
read_at(b, offset, file_size) ==
    SubSeq(b, offset + 1, offset + Min(file_size, Len(b) - offset))

----------------------------------------------------------------------------
(* Directory trees.  A tree is [files, dirs]: files maps the path of every *)
(* regular file to its bytes, dirs is the set of directory paths.  Paths   *)
(* are relative to the tree's root and normalised (no empty, "." or ".."   *)
(* component), as the paths of the model's archives are.                   *)

EmptyTree == [files |-> [p \in {} |-> <<>>], dirs |-> {}]

Slashes(p) == {i \in 1..Len(p) : p[i] = 47}

\* os.path.dirname
dirname(p) ==
    IF Slashes(p) = {} THEN <<>>
    ELSE SubSeq(p, 1, (CHOOSE i \in Slashes(p) : \A j \in Slashes(p) : j <= i) - 1)

\* os.path.basename
basename(p) ==
    IF Slashes(p) = {} THEN p
    ELSE SubSeq(p, (CHOOSE i \in Slashes(p) : \A j \in Slashes(p) : j <= i) + 1, Len(p))

\* os.path.join
pjoin(a, b) == a \o <<47>> \o b

\* The directory d and every directory above it.
DirChain(d) == {SubSeq(d, 1, i - 1) : i \in Slashes(d)} \cup {d}

\* os.makedirs(d, exist_ok=True): fails on a component that is a regular
\* file; the components above the failing one are created.
makedirs(tree, d) ==
    LET bad == {a \in DirChain(d) : a \in DOMAIN tree.files}
        made == {a \in DirChain(d) : \A x \in bad : Len(a) < Len(x)}
    IN  [ok |-> bad = {}, tree |-> [tree EXCEPT !.dirs = @ \cup made]]

\* open(p, 'wb') can create or truncate p: p is no directory and the
\* directory holding it exists.
can_open_wb(tree, p) ==
    /\ p # <<>>
    /\ p \notin tree.dirs
    /\ dirname(p) # <<>> => dirname(p) \in tree.dirs

\* open(p, 'wb'); write(data).
write_file(tree, p, data) ==
    [tree EXCEPT !.files = [q \in DOMAIN tree.files \cup {p} |->
                               IF q = p THEN data ELSE tree.files[q]]]

\* The entries of directory dir (<<>> is the root): os.listdir.
listdir(tree, dir) == {n \in DOMAIN tree.files \cup tree.dirs : dirname(n) = dir}

\* list_files_recursive: every list it can return for directory dir, paths
\* relative to dir.  os.listdir returns the entries in arbitrary order, so
\* each ordering of each directory is a possible traversal; a directory's
\* files stay together, prefixed with its name.
RECURSIVE list_files_recursive(_, _)
RECURSIVE list_files_in_order(_, _)
list_files_in_order(tree, entries) ==
    IF entries = <<>> THEN {<<>>}
    ELSE LET entry == Head(entries)
             first == IF entry \in tree.dirs
                      THEN {[i \in 1..Len(fs) |-> pjoin(basename(entry), fs[i])] :
                                fs \in list_files_recursive(tree, entry)}
                      ELSE {<<basename(entry)>>}
         IN  {f \o r : f \in first, r \in list_files_in_order(tree, Tail(entries))}

list_files_recursive(tree, dir) ==
    UNION {list_files_in_order(tree, entries) : entries \in Orderings(listdir(tree, dir))}

----------------------------------------------------------------------------
(* VFSProcessor.                                                           *)

\* Mutant: a name whose hash the index lacks is skipped.
RECURSIVE extract_files_skip_missing(_, _, _, _)
extract_files_skip_missing(b, vfs_data, filenames, tree) ==
    IF filenames = <<>> THEN [ok |-> TRUE, tree |-> tree]
    ELSE LET fname == Head(filenames)
             path_hash == hash(fname)
         IN  IF path_hash \notin DOMAIN vfs_data
             THEN extract_files_skip_missing(b, vfs_data, Tail(filenames), tree)
             ELSE LET file == vfs_data[path_hash]
                      md == IF dirname(fname) # <<>>
                            THEN makedirs(tree, dirname(fname))
                            ELSE [ok |-> TRUE, tree |-> tree]
                      file_data == read_at(b, file.offset, file.file_size)
                  IN  IF ~md.ok \/ ~can_open_wb(md.tree, fname)
                      THEN [ok |-> FALSE, tree |-> md.tree]
                      ELSE extract_files_skip_missing(b, vfs_data, Tail(filenames),
                                                      write_file(md.tree, fname, file_data))

\* The loop of VFSProcessor.disassemble over the manifest's file names: the
\* first failing name ends the run and leaves what was written before it.
RECURSIVE extract_files(_, _, _, _)
extract_files(b, vfs_data, filenames, tree) ==
    IF filenames = <<>> THEN [ok |-> TRUE, tree |-> tree]
    ELSE LET fname == Head(filenames)
             path_hash == hash(fname)
         IN  IF path_hash \notin DOMAIN vfs_data          \* KeyError
             THEN [ok |-> FALSE, tree |-> tree]
             ELSE LET file == vfs_data[path_hash]
                      md == IF dirname(fname) # <<>>
                            THEN makedirs(tree, dirname(fname))
                            ELSE [ok |-> TRUE, tree |-> tree]
                      file_data == read_at(b, file.offset, file.file_size)
                  IN  IF ~md.ok \/ ~can_open_wb(md.tree, fname)
                      THEN [ok |-> FALSE, tree |-> md.tree]
                      ELSE extract_files(b, vfs_data, Tail(filenames),
                                         write_file(md.tree, fname, file_data))

\* VFSProcessor.disassemble into the tree (the current directory).
VFSProcessor_disassemble(b, tree) ==
    LET vfs_data == get_vfs_data(b)
    IN  IF MANIFEST_PATH_HASH \notin DOMAIN vfs_data       \* KeyError
        THEN [ok |-> FALSE, tree |-> tree]
        ELSE LET filenames == read_strtab(b, vfs_data[MANIFEST_PATH_HASH].offset)
             IN  IF ~filenames.ok THEN [ok |-> FALSE, tree |-> tree]
                 ELSE extract_files(b, vfs_data, filenames.strings, tree)

\* Mutant: the manifest is written before the entries.
VFSProcessor_assemble_manifest_first(tree, paths) ==
    append_to_vfs(MANIFEST_PATH_HASH, write_strtab(paths))
        \o Concat([i \in 1..Len(paths) |->
                      append_to_vfs(hash(paths[i]), tree.files[paths[i]])])

\* VFSProcessor.assemble for the traversal paths: one entry per path, then
\* the manifest.
VFSProcessor_assemble(tree, paths) ==
    Concat([i \in 1..Len(paths) |-> append_to_vfs(hash(paths[i]), tree.files[paths[i]])])
        \o append_to_vfs(MANIFEST_PATH_HASH, write_strtab(paths))

----------------------------------------------------------------------------
(* File objects.  fd is [buf, pos]: the bytes and the 0-based position.    *)

open_fd(buf) == [buf |-> buf, pos |-> 0]

\* fd.write(data): overwrites from pos, extends the file, fills a gap left
\* by a seek past the end with zeros.
fd_write(fd, data) ==
    IF data = <<>> THEN fd
    ELSE LET end == fd.pos + Len(data)
             n == IF end > Len(fd.buf) THEN end ELSE Len(fd.buf)
         IN  [buf |-> [i \in 1..n |->
                          IF i > fd.pos /\ i <= end THEN data[i - fd.pos]
                          ELSE IF i <= Len(fd.buf) THEN fd.buf[i] ELSE 0],
              pos |-> end]

\* fd.seek(n, os.SEEK_CUR) and fd.seek(n, os.SEEK_SET).
fd_seek_cur(fd, n) == [fd EXCEPT !.pos = @ + n]
fd_seek_set(fd, n) == [fd EXCEPT !.pos = n]

\* fd.read(): the rest of the file.
fd_rest(fd) == SubSeq(fd.buf, fd.pos + 1, Len(fd.buf))

\* strict_read(fd, size): IOError (ok = FALSE) when fewer bytes are left.
strict_read(fd, size) ==
    IF size > Len(fd.buf) - fd.pos
    THEN [ok |-> FALSE, data |-> <<>>, fd |-> fd_seek_set(fd, Len(fd.buf))]
    ELSE [ok |-> TRUE, data |-> SubSeq(fd.buf, fd.pos + 1, fd.pos + size),
          fd |-> fd_seek_cur(fd, size)]

----------------------------------------------------------------------------
(* Legacy strings.  A Python str is the sequence of its characters: an     *)
(* ASCII character is its code, a two-byte EUC-KR character is             *)
(* 256 * lead + trail.                                                     *)

\* The two-byte sequences the euc-kr codec decodes, over the bytes of the
\* model: lead and trail in 0xA1..0xFE, rows 0xAD..0xAF, 0xC9 and 0xFE
\* unassigned.
euc_kr_pair(lead, trail) ==
    /\ lead \in 161..254 /\ trail \in 161..254
    /\ lead \notin {173, 174, 175, 201, 254}

\* The codec also decodes the eight-byte make-up sequences of KS X 1001
\* (filler, initial, medial, final) to the syllable they spell.  The model
\* holds the one that spells U+AC00, whose own code is B0 A1.
make_up_sequence == <<164, 212, 164, 161, 164, 191, 164, 212>>

\* bytes.decode('euc-kr', errors='ignore'): an undecodable byte is dropped
\* and decoding resumes after it.  lost counts the dropped bytes.
RECURSIVE decode_lossy(_)
decode_lossy(b) ==
    IF b = <<>> THEN [s |-> <<>>, lost |-> 0]
    ELSE IF b[1] < 128
    THEN LET r == decode_lossy(Tail(b)) IN [s |-> <<b[1]>> \o r.s, lost |-> r.lost]
    ELSE IF Len(b) >= 8 /\ SubSeq(b, 1, 8) = make_up_sequence
    THEN LET r == decode_lossy(SubSeq(b, 9, Len(b)))
         IN  [s |-> <<256 * 176 + 161>> \o r.s, lost |-> r.lost]
    ELSE IF Len(b) >= 2 /\ euc_kr_pair(b[1], b[2])
    THEN LET r == decode_lossy(SubSeq(b, 3, Len(b)))
         IN  [s |-> <<256 * b[1] + b[2]>> \o r.s, lost |-> r.lost]
    ELSE LET r == decode_lossy(Tail(b)) IN [s |-> r.s, lost |-> r.lost + 1]

\* decode_str: the string, and whether warn() was called.
decode_str(b) ==
    LET decoded(r) == [s |-> r.s, warned |-> r.lost > 0]
    IN  decoded(decode_lossy(b))

\* A character the euc-kr codec can encode.
encodable(c) == c < 128 \/ (c >= 256 /\ euc_kr_pair(c \div 256, c % 256))

\* str.encode('euc-kr') of a string of encodable characters: the bytes of
\* each character in order, taken by halves of the string.
RECURSIVE encode_chars(_)
encode_chars(s) ==
    IF s = <<>> THEN <<>>
    ELSE IF Len(s) = 1
    THEN (IF s[1] < 128 THEN <<s[1]>> ELSE <<s[1] \div 256, s[1] % 256>>)
    ELSE encode_chars(SubSeq(s, 1, Len(s) \div 2))
             \o encode_chars(SubSeq(s, Len(s) \div 2 + 1, Len(s)))

\* encode_str: the handler catches UnicodeDecodeError, which str.encode
\* never raises, so an unencodable character's UnicodeEncodeError leaves
\* the function (ok = FALSE) and warn() is never called.
encode_str(s) ==
    IF \A i \in 1..Len(s) : encodable(s[i])
    THEN [ok |-> TRUE, b |-> encode_chars(s)]
    ELSE [ok |-> FALSE, b |-> <<>>]

----------------------------------------------------------------------------
(* Pascal strings and Pascal arrays.                                       *)

\* read_pascal_str / PascalStr.read: the length byte, the bytes, decoded.
read_pascal_str(fd) ==
    LET failed(at) == [ok |-> FALSE, val |-> <<>>, warned |-> FALSE, fd |-> at]
        decoded(string_b, string) ==
            [ok |-> TRUE, val |-> string.s, warned |-> string.warned, fd |-> string_b.fd]
        read_string(string_b) ==
            IF ~string_b.ok THEN failed(string_b.fd)
            ELSE decoded(string_b, decode_str(string_b.data))
        read_strlen(strlen) ==
            IF ~strlen.ok THEN failed(strlen.fd)
            ELSE read_string(strict_read(strlen.fd, strlen.data[1]))
    IN  read_strlen(strict_read(fd, 1))

\* What an element writer does to the file it is handed: it writes data at
\* the current position and returns ret, or raises (ok = FALSE).

\* Mutant: the length byte is the low byte of the length.
write_pascal_str_low_byte(string) ==
    IF ~encode_str(string).ok THEN [ok |-> FALSE, data |-> <<>>, ret |-> 0]
    ELSE [ok |-> TRUE,
          data |-> <<Len(encode_str(string).b) % 256>> \o encode_str(string).b,
          ret |-> Len(encode_str(string).b) + 1]

\* write_pascal_str / PascalStr.write: the length byte (struct.error above
\* 255), the encoded bytes; returns fd.write(string_b) + 1.
write_pascal_str(string) ==
    LET framed(string_b) ==
            IF ~string_b.ok \/ Len(string_b.b) > 255
            THEN [ok |-> FALSE, data |-> <<>>, ret |-> 0]
            ELSE [ok |-> TRUE, data |-> <<Len(string_b.b)>> \o string_b.b,
                  ret |-> Len(string_b.b) + 1]
    IN  framed(encode_str(string))

\* The width of a Pascal array's count and length words.
spec_size(wide_spec) == IF wide_spec THEN 4 ELSE 2

\* write_le32 / write_le16 of a count or a length: struct.error when the
\* value does not fit the word.
fits_spec(n, wide_spec) == wide_spec \/ n < 65536

write_spec(n, wide_spec) ==
    IF wide_spec THEN write_le32_bytes(n) ELSE write_le16_bytes(n)

read_spec(b, wide_spec) == IF wide_spec THEN le32_value(b) ELSE le16_value(b)

\* Mutant: the length word is patched with the size of the word added to
\* the element's byte count.
RECURSIVE write_pascal_elements_counts_word(_, _, _)
write_pascal_elements_counts_word(fd, cbs, wide_spec) ==
    LET cb == Head(cbs)
        start_pos == fd.pos
        patched(written) == fd_write(fd_seek_set(written, start_pos),
                                     write_spec(cb.ret + spec_size(wide_spec), wide_spec))
    IN  IF cbs = <<>> THEN [ok |-> TRUE, fd |-> fd]
        ELSE IF ~cb.ok THEN [ok |-> FALSE, fd |-> fd]
        ELSE write_pascal_elements_counts_word(
                 fd_seek_cur(patched(fd_write(fd_seek_cur(fd, spec_size(wide_spec)),
                                              cb.data)),
                             cb.ret),
                 Tail(cbs), wide_spec)

\* The loop of write_pascal_array over the elements: skip the length word,
\* run the element writer, go back and write the number it returned, then
\* move forward by that number.
RECURSIVE write_pascal_elements(_, _, _)
write_pascal_elements(fd, cbs, wide_spec) ==
    LET cb == Head(cbs)
        start_pos == fd.pos
        patched(written) == fd_write(fd_seek_set(written, start_pos),
                                     write_spec(cb.ret, wide_spec))
        sized(written) ==
            IF ~fits_spec(cb.ret, wide_spec) THEN [ok |-> FALSE, fd |-> written]
            ELSE write_pascal_elements(fd_seek_cur(patched(written), cb.ret),
                                       Tail(cbs), wide_spec)
    IN  IF cbs = <<>> THEN [ok |-> TRUE, fd |-> fd]
        ELSE IF ~cb.ok THEN [ok |-> FALSE, fd |-> fd]
        ELSE sized(fd_write(fd_seek_cur(fd, spec_size(wide_spec)), cb.data))

\* write_pascal_array(fd, write_cb, elements, wide_spec): cbs[i] is what
\* write_cb does for elements[i].
write_pascal_array(fd, cbs, wide_spec) ==
    IF ~fits_spec(Len(cbs), wide_spec) THEN [ok |-> FALSE, fd |-> fd]
    ELSE write_pascal_elements(fd_write(fd, write_spec(Len(cbs), wide_spec)),
                               cbs, wide_spec)

\* The loop of read_pascal_array: n_elem times, the length word and a
\* sub-slice of exactly that length (the element's tmp_fd).
RECURSIVE read_pascal_elements(_, _, _, _)
read_pascal_elements(fd, n_elem, wide_spec, elems) ==
    LET failed(at) == [ok |-> FALSE, elems |-> elems, fd |-> at]
        read_slice(slice) ==
            IF ~slice.ok THEN failed(slice.fd)
            ELSE read_pascal_elements(slice.fd, n_elem - 1, wide_spec,
                                      Append(elems, slice.data))
        read_datalen(datalen) ==
            IF ~datalen.ok THEN failed(datalen.fd)
            ELSE read_slice(strict_read(datalen.fd, read_spec(datalen.data, wide_spec)))
    IN  IF n_elem = 0 THEN [ok |-> TRUE, elems |-> elems, fd |-> fd]
        ELSE read_datalen(strict_read(fd, spec_size(wide_spec)))

\* read_pascal_array(fd, read_cb, wide_spec): the sub-slices read_cb is
\* called on, in order.
read_pascal_array(fd, wide_spec) ==
    LET read_elements(n_elem) ==
            IF ~n_elem.ok THEN [ok |-> FALSE, elems |-> <<>>, fd |-> n_elem.fd]
            ELSE read_pascal_elements(n_elem.fd, read_spec(n_elem.data, wide_spec),
                                      wide_spec, <<>>)
    IN  read_elements(strict_read(fd, spec_size(wide_spec)))

----------------------------------------------------------------------------
(* CommonTextProcessor: a Pascal array of Pascal strings.                  *)

\* CommonTextProcessor.disassemble: the document (a list of strings).
CommonText_disassemble(b) ==
    LET collected(arr, items) ==
            [ok |-> arr.ok /\ \A i \in 1..Len(items) : items[i].ok,
             obj |-> [i \in 1..Len(items) |-> items[i].val],
             n_warn |-> Cardinality({i \in 1..Len(items) :
                            items[i].warned /\ \A j \in 1..i : items[j].ok})]
        read_func(arr) ==
            collected(arr, [i \in 1..Len(arr.elems) |->
                               read_pascal_str(open_fd(arr.elems[i]))])
    IN  read_func(read_pascal_array(open_fd(b), FALSE))

\* CommonTextProcessor.assemble into a file opened 'wb'.
CommonText_assemble(in_obj) ==
    LET written(w) == [ok |-> w.ok, data |-> w.fd.buf]
    IN  written(write_pascal_array(open_fd(<<>>),
                                   [i \in 1..Len(in_obj) |-> write_pascal_str(in_obj[i])],
                                   FALSE))

----------------------------------------------------------------------------
(* The archives, trees and documents the model runs on.                    *)

P_a == <<97>>                                   \* "a"
P_aB == <<97, 66>>                              \* "aB"
P_bBang == <<98, 33>>                           \* "b!": the hash of "aB"
P_c == <<99>>                                   \* "c": a file where c/ is a directory
P_tips == <<99, 47, 99, 115, 118, 47, 116, 105, 112, 115, 46, 100, 97, 116>>
                                                \* "c/csv/tips.dat"
P_mk == <<119, 100, 99, 105, 107, 109, 112>>    \* "wdcikmp": the manifest's hash

PathSet == {P_a, P_aB, P_bBang, P_c, P_tips, P_mk}

\* File contents: one byte that is no Pascal array, and the empty array.
Contents == {<<7>>, <<0, 0>>}

\* What another run may have left in .tmp: a file raw/ may hold too, a file
\* raw/ cannot hold, and a stale copy of the target.
StaleTree ==
    [files |-> (P_a :> <<9>>) @@ (<<122>> :> <<9>>) @@ (P_tips :> <<9>>),
     dirs |-> {<<99>>, <<99, 47, 99, 115, 118>>}]

\* The documents a user may leave in a sidecar: no string, "A", and a
\* string with a character (U+00E9) outside the legacy codepage.
DocChoices == {<<>>, << <<65>> >>, << <<65, 233>> >>}

\* CommonTextProcessor's target_list, cut to its last target.
target_list == <<P_tips>>

\* An input archive: its entries, the manifest with the paths names placed
\* after the first at entries (no manifest when at < 0), and, when
\* truncated, the last header declaring one byte more than the stream holds.
RECURSIVE archive_bytes(_, _)
archive_bytes(ents, truncated) ==
    IF ents = <<>> THEN <<>>
    ELSE Head(ents).h
             \o write_le32_bytes(Len(Head(ents).data)
                                    + (IF Len(ents) = 1 /\ truncated THEN 1 ELSE 0))
             \o Head(ents).data
             \o archive_bytes(Tail(ents), truncated)

with_manifest(ents, names, at) ==
    IF at < 0 THEN ents
    ELSE SubSeq(ents, 1, Min(at, Len(ents)))
             \o <<[h |-> MANIFEST_PATH_HASH, data |-> write_strtab(names)]>>
             \o SubSeq(ents, Min(at, Len(ents)) + 1, Len(ents))

EntryChoices == {[h |-> hash(p), data |-> d] : p \in PathSet, d \in Contents}

Archives ==
    {archive_bytes(with_manifest(ents, names, at), truncated) :
        ents \in SeqsUpTo(EntryChoices, MaxEntries),
        names \in SeqsUpTo(PathSet, MaxManifest),
        at \in -1..MaxEntries,
        truncated \in BOOLEAN}

----------------------------------------------------------------------------
(* Processor: the per-target driver of a record processor.                 *)

NoSidecars == [t \in {} |-> [valid |-> FALSE, obj |-> <<>>]]

\* Processor._disassemble over the targets: open raw/<target>, open the
\* sidecar for writing, disassemble, dump the document.  A missing target
\* or a failing disassemble ends the run; the sidecar opened for the
\* failing target is left empty.
RECURSIVE Processor_disassemble(_, _, _)
Processor_disassemble(targets, tree, docs) ==
    IF targets = <<>> THEN [ok |-> TRUE, docs |-> docs]
    ELSE LET target == Head(targets)
         IN  IF target \notin DOMAIN tree.files        \* FileNotFoundError
             THEN [ok |-> FALSE, docs |-> docs]
             ELSE LET out_obj == CommonText_disassemble(tree.files[target])
                      put == [t \in DOMAIN docs \cup {target} |->
                                 IF t = target
                                 THEN [valid |-> out_obj.ok, obj |-> out_obj.obj]
                                 ELSE docs[t]]
                  IN  IF ~out_obj.ok THEN [ok |-> FALSE, docs |-> put]
                      ELSE Processor_disassemble(Tail(targets), tree, put)

\* Processor._assemble over the targets: load the sidecar, open
\* .tmp/<target> for writing, assemble into it.  A missing or unreadable
\* sidecar, a target that cannot be opened or a failing assemble ends the
\* run; the target opened last keeps what was written to it.
RECURSIVE Processor_assemble(_, _, _)
Processor_assemble(targets, tree, docs) ==
    IF targets = <<>> THEN [ok |-> TRUE, tree |-> tree]
    ELSE LET target == Head(targets)
         IN  IF target \notin DOMAIN docs \/ ~docs[target].valid
                \/ ~can_open_wb(tree, target)
             THEN [ok |-> FALSE, tree |-> tree]
             ELSE LET asm == CommonText_assemble(docs[target].obj)
                      put == write_file(tree, target, asm.data)
                  IN  IF ~asm.ok THEN [ok |-> FALSE, tree |-> put]
                      ELSE Processor_assemble(Tail(targets), put, docs)

----------------------------------------------------------------------------
(* HL5Tool: extract and create on one base directory.                      *)

\* A codec run that is not part of the behaviour.
NotRun == [pc |-> "not run"]

Init ==
    /\ vfs_fd \in Archives
    /\ meta = [written |-> FALSE, version |-> "", raw_only |-> FALSE]
    /\ raw = EmptyTree
    /\ tmp = EmptyTree
    /\ tmp_found = EmptyTree
    /\ sidecars = NoSidecars
    /\ out_fd = <<>>
    /\ path_list = <<>>
    /\ extracted = "no"
    /\ created = "no"
    /\ pascal = NotRun /\ record = NotRun /\ gbm = NotRun
    /\ hasher = NotRun /\ item = NotRun /\ encoder = NotRun /\ packer = NotRun /\ legacy = NotRun /\ cli = NotRun /\ writer = NotRun

\* HL5Tool.extract(raw_only): write vfs.json, extract the archive into
\* raw/, then, unless raw_only, run the processor's _disassemble.
HL5Tool_extract(raw_only) ==
    /\ extracted = "no"
    /\ meta' = [written |-> TRUE, version |-> PROG_VERSION, raw_only |-> raw_only]
    /\ LET vfs == VFSProcessor_disassemble(vfs_fd, raw)
           proc == Processor_disassemble(target_list, vfs.tree, sidecars)
       IN  /\ raw' = vfs.tree
           /\ sidecars' = IF vfs.ok /\ ~raw_only THEN proc.docs ELSE sidecars
           /\ extracted' = IF vfs.ok /\ (raw_only \/ proc.ok) THEN "ok" ELSE "failed"
    /\ UNCHANGED <<vfs_fd, tmp, tmp_found, out_fd, path_list, created>>
    /\ UNCHANGED codec_vars

\* The user edits a sidecar document between extract and create.
EditSidecar(target, obj) ==
    /\ extracted = "ok" /\ created = "no"
    /\ target \in DOMAIN sidecars
    /\ sidecars[target].obj # obj
    /\ sidecars' = [sidecars EXCEPT ![target] = [valid |-> TRUE, obj |-> obj]]
    /\ UNCHANGED <<vfs_fd, meta, raw, tmp, tmp_found, out_fd, path_list, extracted, created>>
    /\ UNCHANGED codec_vars

\* Something else (an earlier create, a failed run) has left files in .tmp.
LeaveStale ==
    /\ extracted = "ok" /\ created = "no" /\ ~meta.raw_only
    /\ tmp = EmptyTree
    /\ tmp' = StaleTree
    /\ UNCHANGED <<vfs_fd, meta, raw, tmp_found, sidecars, out_fd, path_list, extracted,
                   created>>
    /\ UNCHANGED codec_vars

\* shutil.rmtree(.tmp): nothing is left of it.
rmtree(tree) == EmptyTree

\* shutil.copytree(src, dst, dirs_exist_ok=True): src's directories and
\* files are added to dst, a file of src replacing the one dst has.
copytree(src, dst) ==
    [files |-> [p \in DOMAIN src.files \cup DOMAIN dst.files |->
                   IF p \in DOMAIN src.files THEN src.files[p] ELSE dst.files[p]],
     dirs |-> src.dirs \cup dst.dirs]

\* Mutant: .tmp is not removed before the copy.
staging_over_stale(tmp_tree, raw_tree, docs) ==
    Processor_assemble(target_list, copytree(raw_tree, tmp_tree), docs)

\* The staging tree of a full create, given what .tmp held: .tmp removed,
\* raw/ copied to it, the processor's targets assembled over the copy.
staging(tmp_tree, raw_tree, docs) ==
    Processor_assemble(target_list, copytree(raw_tree, rmtree(tmp_tree)), docs)

\* HL5Tool.create: check vfs.json, then pack raw/ (raw_only) or the
\* staging tree, in one of the orders the traversal can produce.
HL5Tool_create ==
    /\ extracted # "no" /\ created = "no"
    /\ meta.written /\ meta.version = PROG_VERSION
    /\ LET staged == IF meta.raw_only THEN [ok |-> TRUE, tree |-> raw]
                     ELSE staging(tmp, raw, sidecars)
       IN  /\ tmp' = IF meta.raw_only THEN tmp ELSE staged.tree
           /\ tmp_found' = tmp
           /\ IF staged.ok
              THEN \E paths \in list_files_recursive(staged.tree, <<>>) :
                      /\ out_fd' = VFSProcessor_assemble(staged.tree, paths)
                      /\ path_list' = paths
                      /\ created' = "ok"
              ELSE /\ created' = "failed"
                   /\ UNCHANGED <<out_fd, path_list>>
    /\ UNCHANGED <<vfs_fd, meta, raw, sidecars, extracted>>
    /\ UNCHANGED codec_vars

Next ==
    \/ \E raw_only \in BOOLEAN : HL5Tool_extract(raw_only)
    \/ \E target \in Range(target_list), obj \in DocChoices : EditSidecar(target, obj)
    \/ LeaveStale
    \/ HL5Tool_create

Spec == Init /\ [][Next]_vars

----------------------------------------------------------------------------
(* Properties of the archive and the orchestrator, checked under Spec.     *)

\* What extracting the archive b into an empty directory leaves.
Extracted(b) == VFSProcessor_disassemble(b, EmptyTree)

\* The index of the input archive and the manifest read through it.
InIndex == get_vfs_data(vfs_fd)
InManifest ==
    IF MANIFEST_PATH_HASH \in DOMAIN InIndex
    THEN read_strtab(vfs_fd, InIndex[MANIFEST_PATH_HASH].offset)
    ELSE [ok |-> FALSE, strings |-> <<>>]

\* The tree the create packed.
PackedTree == IF meta.raw_only THEN raw ELSE tmp

\* C1 as stated: after a raw-only extract of any archive and a create, the
\* archive written extracts to the same paths with the same contents as
\* the archive read.
C1_RoundTrip_AnyArchive ==
    (extracted = "ok" /\ meta.raw_only /\ created = "ok")
        => /\ Extracted(out_fd).ok
           /\ Extracted(out_fd).tree.files = Extracted(vfs_fd).tree.files

\* C1, amended: the same, for an archive whose manifest lists no path
\* whose hash is the manifest's own hash.
C1_RoundTrip ==
    (/\ extracted = "ok" /\ meta.raw_only /\ created = "ok"
     /\ \A p \in DOMAIN raw.files : hash(p) # MANIFEST_PATH_HASH)
        => /\ Extracted(out_fd).ok
           /\ Extracted(out_fd).tree.files = Extracted(vfs_fd).tree.files

C1_Witness ==
    /\ extracted = "ok" /\ meta.raw_only /\ created = "ok"
    /\ Cardinality(DOMAIN raw.files) >= 2
    /\ \A p \in DOMAIN raw.files : hash(p) # MANIFEST_PATH_HASH
    /\ out_fd # vfs_fd

\* The entries of a well-formed stream, in order, as [h, data].
RECURSIVE StreamEntries(_)
StreamEntries(b) ==
    IF Len(b) < 8 THEN <<>>
    ELSE LET size == Min(le32_value(SubSeq(b, 5, 8)), Len(b) - 8)
         IN  <<[h |-> SubSeq(b, 1, 4), data |-> SubSeq(b, 9, 8 + size)]>>
                 \o StreamEntries(SubSeq(b, 9 + size, Len(b)))

IsTarget(p) == p \in Range(target_list)

\* C5: a full create packs every file of raw/ that is no processor target
\* with the bytes it has in raw/, and packs no path that was only in the
\* .tmp/ it found.
C5_PassThrough ==
    (created = "ok" /\ ~meta.raw_only)
        => /\ \A p \in DOMAIN raw.files : ~IsTarget(p) =>
                  \E i \in 1..Len(path_list) :
                      /\ path_list[i] = p
                      /\ StreamEntries(out_fd)[i] = [h |-> hash(p), data |-> raw.files[p]]
           /\ \A i \in 1..Len(path_list) :
                  path_list[i] \in DOMAIN raw.files \/ IsTarget(path_list[i])

\* A full create that found leftovers in .tmp, among them a path raw/ does
\* not hold, and packed a file of raw/ that is no target.
C5_Witness ==
    /\ created = "ok" /\ ~meta.raw_only
    /\ \E p \in DOMAIN raw.files : ~IsTarget(p) /\ p \in DOMAIN tmp_found.files
    /\ \E p \in DOMAIN tmp_found.files : p \notin DOMAIN raw.files

\* C6: the archive create writes is one entry (hash, size, bytes) per path
\* of the traversal list, in that order, then the manifest entry, last,
\* holding the count and the same paths in the same order.
C6_EntriesThenManifest ==
    created = "ok"
        => LET strtab == write_le32_bytes(Len(path_list))
                             \o Concat([i \in 1..Len(path_list) |-> path_list[i] \o <<0>>])
               entry(p) == hash(p) \o write_le32_bytes(Len(PackedTree.files[p]))
                               \o PackedTree.files[p]
           IN  /\ Range(path_list) = DOMAIN PackedTree.files
               /\ Len(path_list) = Cardinality(DOMAIN PackedTree.files)
               /\ out_fd = Concat([i \in 1..Len(path_list) |-> entry(path_list[i])])
                               \o MANIFEST_PATH_HASH
                               \o write_le32_bytes(Len(strtab)) \o strtab

C6_Witness ==
    /\ created = "ok"
    /\ Len(path_list) >= 2
    /\ \E i \in 1..Len(path_list) : Slashes(path_list[i]) # {}

C8_CollisionFails ==
    created = "ok"
        => \A i, j \in 1..Len(path_list) :
               i # j => hash(path_list[i]) # hash(path_list[j])

\* The first manifest path whose hash the index lacks (0: none).
FirstMissing ==
    LET miss == {i \in 1..Len(InManifest.strings) :
                    hash(InManifest.strings[i]) \notin DOMAIN InIndex}
    IN  IF miss = {} THEN 0 ELSE CHOOSE i \in miss : \A j \in miss : i <= j

\* C9: when the manifest lists a path whose hash the index lacks, the
\* extract fails at that path: the path is not written, nor is any path
\* listed after it.
C9_MissingHashFails ==
    (extracted # "no" /\ InManifest.ok /\ FirstMissing > 0)
        => /\ extracted = "failed"
           /\ InManifest.strings[FirstMissing] \notin DOMAIN raw.files
           /\ DOMAIN raw.files \subseteq
                  {InManifest.strings[i] : i \in 1..(FirstMissing - 1)}

C9_Witness ==
    /\ extracted = "failed" /\ InManifest.ok /\ FirstMissing = 2
    /\ Cardinality(DOMAIN raw.files) = 1

\* C10 as stated: when the archive holds a non-manifest entry that no
\* manifest path hashes to, the extract fails.
C10_UnlistedEntryFails ==
    (extracted # "no" /\ InManifest.ok
     /\ \E h \in DOMAIN InIndex \ {MANIFEST_PATH_HASH} :
            \A i \in 1..Len(InManifest.strings) : hash(InManifest.strings[i]) # h)
        => extracted = "failed"

\* The manifest paths whose entry declares more bytes than the archive
\* holds after its header.
TruncatedPaths ==
    {p \in Range(InManifest.strings) :
        /\ hash(p) \in DOMAIN InIndex
        /\ InIndex[hash(p)].file_size > Len(vfs_fd) - InIndex[hash(p)].offset}

\* C11 as stated: an extract whose manifest lists an entry that declares a
\* size reaching past the end of the archive fails, and no file of raw/ is
\* shorter than the size its entry declares.
C11_TruncationFatal ==
    (extracted # "no" /\ InManifest.ok)
        => /\ TruncatedPaths # {} => extracted = "failed"
           /\ \A p \in DOMAIN raw.files :
                  hash(p) \in DOMAIN InIndex
                      => Len(raw.files[p]) = InIndex[hash(p)].file_size

----------------------------------------------------------------------------
(* A run of write_pascal_array and read_pascal_array on one file, with the *)
(* element callbacks of the program: Data.write / Data.read (the bytes as  *)
(* they are) and write_pascal_str / read_pascal_str.                       *)

MaxElems == 3       \* elements of a Pascal array that is written

\* Data.write(fd, in_obj): fd.write(bytes(in_obj)).
Data_write(in_obj) == [ok |-> TRUE, data |-> in_obj, ret |-> Len(in_obj)]

\* The records handed to write_pascal_array, by element writer.  Strings:
\* "", "A", U+AC00 (EUC-KR B0 A1), "A" U+AC00, and U+00E9, which the
\* legacy codepage does not hold.
PascalRecords(write_cb) ==
    IF write_cb = "Data"
    THEN {<<>>, <<0>>, <<1, 2>>, <<255, 255, 255>>}
    ELSE {<<>>, <<65>>, <<45217>>, <<65, 45217>>, <<233>>}

\* What write_cb does for each element.
PascalCallbacks(write_cb, elements) ==
    [i \in 1..Len(elements) |->
        IF write_cb = "Data" THEN Data_write(elements[i])
        ELSE write_pascal_str(elements[i])]

\* What read_cb returns for each sub-slice.
PascalReturns(write_cb, elems) ==
    [i \in 1..Len(elems) |->
        IF write_cb = "Data" THEN [ok |-> TRUE, val |-> fd_rest(open_fd(elems[i]))]
        ELSE read_pascal_str(open_fd(elems[i]))]

\* No orchestrator run is part of a codec run.
HL5ToolNotRun ==
    /\ vfs_fd = <<>>
    /\ meta = [written |-> FALSE, version |-> "", raw_only |-> FALSE]
    /\ raw = EmptyTree /\ tmp = EmptyTree /\ tmp_found = EmptyTree
    /\ sidecars = NoSidecars
    /\ out_fd = <<>> /\ path_list = <<>>
    /\ extracted = "no" /\ created = "no"

\* The file is opened 'wb'; before holds what the caller wrote ahead of
\* the array.
InitPascal ==
    /\ HL5ToolNotRun
    /\ record = NotRun /\ gbm = NotRun
    /\ hasher = NotRun /\ item = NotRun /\ encoder = NotRun /\ packer = NotRun /\ legacy = NotRun /\ cli = NotRun /\ writer = NotRun
    /\ \E write_cb \in {"Data", "PascalStr"}, wide_spec \in BOOLEAN,
          before \in {<<>>, <<255>>} :
          \E elements \in SeqsUpTo(PascalRecords(write_cb), MaxElems) :
             pascal = [pc |-> "open", write_cb |-> write_cb, wide_spec |-> wide_spec,
                       before |-> before, elements |-> elements,
                       fd |-> fd_write(open_fd(<<>>), before), ret_vals |-> <<>>]

\* write_pascal_array(fd, write_cb, elements, wide_spec).
PascalWrite ==
    /\ pascal.pc = "open"
    /\ LET w == write_pascal_array(pascal.fd,
                                   PascalCallbacks(pascal.write_cb, pascal.elements),
                                   pascal.wide_spec)
       IN  pascal' = [pascal EXCEPT !.pc = IF w.ok THEN "written" ELSE "write failed",
                                    !.fd = w.fd]
    /\ UNCHANGED <<hl5_vars, record, gbm, hasher, item, encoder, packer, legacy, cli, writer>>

\* The file is reopened and read_pascal_array(fd, read_cb, wide_spec) runs
\* from where the array begins.
PascalRead ==
    /\ pascal.pc = "written"
    /\ LET r == read_pascal_array(fd_seek_set(pascal.fd, Len(pascal.before)),
                                  pascal.wide_spec)
           rets == PascalReturns(pascal.write_cb, r.elems)
           ok == r.ok /\ \A i \in 1..Len(rets) : rets[i].ok
       IN  pascal' = [pascal EXCEPT !.pc = IF ok THEN "read" ELSE "read failed",
                                    !.fd = r.fd,
                                    !.ret_vals = [i \in 1..Len(rets) |-> rets[i].val]]
    /\ UNCHANGED <<hl5_vars, record, gbm, hasher, item, encoder, packer, legacy, cli, writer>>

NextPascal == PascalWrite \/ PascalRead

SpecPascal == InitPascal /\ [][NextPascal]_vars

\* The bytes of one element as the array frames them: the length word
\* holding the number the element writer returned, then what it wrote.
FramedElement(cb, wide_spec) == write_spec(cb.ret, wide_spec) \o cb.data

\* C4: a Pascal array written by write_pascal_array holds the count word
\* and, for each record, a length word equal to the number of bytes the
\* element writer wrote followed by those bytes, at either prefix width;
\* read_pascal_array on it succeeds, consumes the file to its end and
\* returns the records that were written.
C4_PascalArrayRoundTrip ==
    LET cbs == PascalCallbacks(pascal.write_cb, pascal.elements)
    IN  /\ pascal.pc \in {"written", "read"} =>
              pascal.fd.buf = pascal.before
                  \o write_spec(Len(cbs), pascal.wide_spec)
                  \o Concat([i \in 1..Len(cbs) |->
                                FramedElement(cbs[i], pascal.wide_spec)])
        /\ pascal.pc # "read failed"
        /\ pascal.pc = "read" =>
              /\ pascal.ret_vals = pascal.elements
              /\ pascal.fd.pos = Len(pascal.fd.buf)

\* The case of C4: an array of three records, one of them empty and one of
\* several bytes, written after other bytes and read back.
C4_Witness ==
    /\ pascal.pc = "read"
    /\ Len(pascal.elements) = MaxElems
    /\ pascal.before # <<>>
    /\ \E i, j \in 1..Len(pascal.elements) :
          pascal.elements[i] = <<>> /\ Len(pascal.elements[j]) > 1

----------------------------------------------------------------------------
(* The field codecs (Data, Int, PascalStr, SimpleStruct, PascalArray).     *)
(* A schema's struct_dict is the sequence of its field codecs in           *)
(* declaration order, and an object the sequence of the fields' values in  *)
(* the same order: reorder_dict only changes the order of a dict's keys,   *)
(* and the writers look every value up by its key.                         *)

Data(size) == [k |-> "Data", size |-> size]
DataRest == [k |-> "Data", size |-> -1]             \* Data(): size is None
PascalStr == [k |-> "PascalStr"]
\* Int(bits): Int names the integers here, so the codec is Int_field.
Int_field(bits) == [k |-> "Int", bits |-> bits]
SimpleStruct(struct_dict) == [k |-> "SimpleStruct", struct_dict |-> struct_dict]

\* int.from_bytes(b, byteorder='little') and int.to_bytes(n, length, 'little').
RECURSIVE int_from_bytes(_)
int_from_bytes(b) == IF b = <<>> THEN 0 ELSE b[1] + 256 * int_from_bytes(Tail(b))

RECURSIVE int_to_bytes(_, _)
int_to_bytes(n, length) ==
    IF length = 0 THEN <<>> ELSE <<n % 256>> \o int_to_bytes(n \div 256, length - 1)

\* Data.read: the rest of the file, or exactly size bytes.
Data_read(v, fd) ==
    LET read(r) == [ok |-> r.ok, val |-> r.data, n_warn |-> 0, fd |-> r.fd]
    IN  IF v.size < 0
        THEN [ok |-> TRUE, val |-> fd_rest(fd), n_warn |-> 0,
              fd |-> fd_seek_set(fd, Len(fd.buf))]
        ELSE read(strict_read(fd, v.size))

\* Int.read: bits // 8 bytes, as an unsigned little-endian integer.
Int_read(v, fd) ==
    LET from_bytes(ints) ==
            [ok |-> ints.ok, val |-> int_from_bytes(ints.data), n_warn |-> 0,
             fd |-> ints.fd]
    IN  from_bytes(strict_read(fd, v.bits \div 8))

\* Mutant: the integer is written most significant byte first.
RECURSIVE int_to_bytes_big(_, _)
int_to_bytes_big(n, length) ==
    IF length = 0 THEN <<>> ELSE int_to_bytes_big(n \div 256, length - 1) \o <<n % 256>>

Int_write_big_endian(v, in_obj) ==
    [ok |-> TRUE, data |-> int_to_bytes_big(in_obj, v.bits \div 8), ret |-> v.bits \div 8]

\* Int.write: OverflowError when the value does not fit the field.
Int_write(v, in_obj) ==
    IF in_obj < 0 \/ (v.bits < 32 /\ in_obj >= 2 ^ v.bits)
    THEN [ok |-> FALSE, data |-> <<>>, ret |-> 0]
    ELSE [ok |-> TRUE, data |-> int_to_bytes(in_obj, v.bits \div 8), ret |-> v.bits \div 8]

\* PascalStr.read.
PascalStr_read(fd) ==
    LET counted(r) ==
            [ok |-> r.ok, val |-> r.val, n_warn |-> IF r.warned THEN 1 ELSE 0, fd |-> r.fd]
    IN  counted(read_pascal_str(fd))

\* SimpleStruct.read, and PascalArray.read's read_func: every field in turn
\* from the same file.  The fields are taken in order; the list is halved
\* only to keep the evaluation shallow.
RECURSIVE SimpleStruct_read(_, _)
SimpleStruct_read(struct_dict, fd) ==
    LET v == Head(struct_dict)
        half == Len(struct_dict) \div 2
        one(r) == [ok |-> r.ok, val |-> IF r.ok THEN <<r.val>> ELSE <<>>,
                   n_warn |-> r.n_warn, fd |-> r.fd]
        both(first, rest) == [ok |-> rest.ok, val |-> first.val \o rest.val,
                              n_warn |-> first.n_warn + rest.n_warn, fd |-> rest.fd]
        then_rest(first) ==
            IF ~first.ok THEN first
            ELSE both(first,
                      SimpleStruct_read(SubSeq(struct_dict, half + 1, Len(struct_dict)),
                                        first.fd))
    IN  IF struct_dict = <<>> THEN [ok |-> TRUE, val |-> <<>>, n_warn |-> 0, fd |-> fd]
        ELSE IF Len(struct_dict) = 1
        THEN one(CASE v.k = "Data" -> Data_read(v, fd)
                   [] v.k = "Int" -> Int_read(v, fd)
                   [] v.k = "PascalStr" -> PascalStr_read(fd)
                   [] v.k = "SimpleStruct" -> SimpleStruct_read(v.struct_dict, fd))
        ELSE then_rest(SimpleStruct_read(SubSeq(struct_dict, 1, half), fd))

\* SimpleStruct.write, and PascalArray.write's write_func: every field in
\* turn at the file's position; returns the sum of what the fields return.
RECURSIVE SimpleStruct_write(_, _)
SimpleStruct_write(struct_dict, in_obj) ==
    LET v == Head(struct_dict)
        half == Len(struct_dict) \div 2
        both(first, rest) == [ok |-> rest.ok, data |-> first.data \o rest.data,
                              ret |-> first.ret + rest.ret]
        then_rest(first) ==
            IF ~first.ok THEN first
            ELSE both(first,
                      SimpleStruct_write(SubSeq(struct_dict, half + 1, Len(struct_dict)),
                                         SubSeq(in_obj, half + 1, Len(in_obj))))
    IN  IF struct_dict = <<>> THEN [ok |-> TRUE, data |-> <<>>, ret |-> 0]
        ELSE IF Len(struct_dict) = 1
        THEN CASE v.k = "Data" -> Data_write(Head(in_obj))
               [] v.k = "Int" -> Int_write(v, Head(in_obj))
               [] v.k = "PascalStr" -> write_pascal_str(Head(in_obj))
               [] v.k = "SimpleStruct" -> SimpleStruct_write(v.struct_dict, Head(in_obj))
        ELSE then_rest(SimpleStruct_write(SubSeq(struct_dict, 1, half),
                                          SubSeq(in_obj, 1, half)))

\* The n_warn of a list of reads, up to and including the first that failed.
RECURSIVE warnings_of(_)
warnings_of(items) ==
    IF items = <<>> THEN 0
    ELSE Head(items).n_warn + (IF Head(items).ok THEN warnings_of(Tail(items)) ELSE 0)

\* PascalArray.read: read_pascal_array with read_func on each sub-slice.
PascalArray_read(struct_dict, fd) ==
    LET collected(arr, items) ==
            [ok |-> arr.ok /\ \A i \in 1..Len(items) : items[i].ok,
             obj |-> [i \in 1..Len(items) |-> items[i].val],
             n_warn |-> warnings_of(items),
             fd |-> arr.fd]
        read_func(arr) ==
            collected(arr, [i \in 1..Len(arr.elems) |->
                               SimpleStruct_read(struct_dict, open_fd(arr.elems[i]))])
    IN  read_func(read_pascal_array(fd, FALSE))

\* PascalArray.write: write_pascal_array with write_func on each item.
PascalArray_write(struct_dict, fd, in_obj) ==
    write_pascal_array(fd,
                       [i \in 1..Len(in_obj) |-> SimpleStruct_write(struct_dict, in_obj[i])],
                       FALSE)

----------------------------------------------------------------------------
(* NUL-terminated strings and ext arrays (SceneProcessor's containers).    *)

\* read_str: the bytes up to the first NUL, or to the end of the file when
\* there is none, decoded; the file is left after the NUL.
read_str(fd) ==
    LET scan(rest) ==
            LET nuls == {i \in 1..Len(rest) : rest[i] = 0}
                found_null == nuls # {}
                n == IF found_null THEN (CHOOSE i \in nuls : \A j \in nuls : i <= j) - 1
                     ELSE Len(rest)
                decoded(string) ==
                    [ok |-> TRUE, val |-> string.s,
                     n_warn |-> IF string.warned THEN 1 ELSE 0,
                     fd |-> fd_seek_cur(fd, IF found_null THEN n + 1 ELSE n)]
            IN  decoded(decode_str(SubSeq(rest, 1, n)))
    IN  scan(fd_rest(fd))

\* write_str: the encoded string and a NUL.
write_str(string) ==
    LET terminated(str_b) ==
            IF ~str_b.ok THEN [ok |-> FALSE, data |-> <<>>, ret |-> 0]
            ELSE [ok |-> TRUE, data |-> str_b.b \o <<0>>, ret |-> Len(str_b.b) + 1]
    IN  terminated(encode_str(string))

\* The bytes of one length of an ext array: '<%dH' when lspec_size is 2,
\* '<%dB' otherwise.
lspec_bytes(lspec_size) == IF lspec_size = 2 THEN 2 ELSE 1

RECURSIVE read_ext_elements(_, _, _)
read_ext_elements(fd, len_list, elems) ==
    LET read_slice(slice) ==
            IF ~slice.ok THEN [ok |-> FALSE, elems |-> elems, fd |-> slice.fd]
            ELSE read_ext_elements(slice.fd, Tail(len_list), Append(elems, slice.data))
    IN  IF len_list = <<>> THEN [ok |-> TRUE, elems |-> elems, fd |-> fd]
        ELSE read_slice(strict_read(fd, Head(len_list)))

\* read_ext_array(fd, read_cb, lspec_size): the count byte, the lengths,
\* then one sub-slice per length; returns the sub-slices read_cb is called on.
read_ext_array(fd, lspec_size) ==
    LET w == lspec_bytes(lspec_size)
        read_elements(n_elem, lens) ==
            IF ~lens.ok THEN [ok |-> FALSE, elems |-> <<>>, fd |-> lens.fd]
            ELSE read_ext_elements(
                     lens.fd,
                     [i \in 1..n_elem.data[1] |->
                         int_from_bytes(SubSeq(lens.data, w * (i - 1) + 1, w * i))],
                     <<>>)
        read_lens(n_elem) ==
            IF ~n_elem.ok THEN [ok |-> FALSE, elems |-> <<>>, fd |-> n_elem.fd]
            ELSE read_elements(n_elem, strict_read(n_elem.fd, w * n_elem.data[1]))
    IN  read_lens(strict_read(fd, 1))

\* The loop of write_ext_array: the element writers one after the other.
RECURSIVE write_ext_elements(_, _)
write_ext_elements(fd, cbs) ==
    IF cbs = <<>> THEN [ok |-> TRUE, fd |-> fd]
    ELSE IF ~Head(cbs).ok THEN [ok |-> FALSE, fd |-> fd]
    ELSE write_ext_elements(fd_write(fd, Head(cbs).data), Tail(cbs))

RECURSIVE sum_ret(_)
sum_ret(cbs) == IF cbs = <<>> THEN 0 ELSE Head(cbs).ret + sum_ret(Tail(cbs))

\* write_ext_array(fd, write_cb, lspec_size, elements): the count byte, room
\* for the lengths, the elements, then back to fill the lengths in with what
\* the element writers returned, and forward again by their sum.
\* struct.error when the count or a length does not fit.
write_ext_array(fd, cbs, lspec_size) ==
    LET w == lspec_bytes(lspec_size)
        patched(body, lspec_pos) ==
            fd_write(fd_seek_set(body.fd, lspec_pos),
                     Concat([i \in 1..Len(cbs) |-> int_to_bytes(cbs[i].ret, w)]))
        fill_lens(body, lspec_pos) ==
            IF ~body.ok THEN [ok |-> FALSE, fd |-> body.fd]
            ELSE IF \E i \in 1..Len(cbs) : cbs[i].ret >= 256 ^ w
            THEN [ok |-> FALSE, fd |-> fd_seek_set(body.fd, lspec_pos)]
            ELSE [ok |-> TRUE, fd |-> fd_seek_cur(patched(body, lspec_pos), sum_ret(cbs))]
        write_elements(counted) ==
            fill_lens(write_ext_elements(fd_seek_cur(counted, w * Len(cbs)), cbs),
                      counted.pos)
    IN  IF Len(cbs) > 255 THEN [ok |-> FALSE, fd |-> fd]
        ELSE write_elements(fd_write(fd, <<Len(cbs)>>))

----------------------------------------------------------------------------
(* The record processors.                                                  *)

QuestProcessor_struct == <<Data(3), PascalStr, PascalStr, PascalStr, Data(38)>>

\* The widths of EnemyProcessor's integer fields, param_0h to param_7fh.
EnemyProcessor_bits ==
    <<8, 8, 8, 8, 16, 8, 8, 16, 16, 8, 16, 8, 8, 16, 16, 8, 16, 8, 8, 16, 16, 8, 16,
      8, 8, 16, 16, 32, 32, 32, 32, 32, 32, 32, 8, 8, 8, 8, 8, 8, 8, 8, 16, 8, 8, 8,
      32, 16, 16, 16, 16, 16, 16, 16, 16, 16, 16, 16, 16, 16, 16, 16, 16, 16, 8, 8, 8,
      8, 8, 8, 8, 16, 8>>

EnemyProcessor_struct ==
    <<PascalStr>> \o [i \in 1..Len(EnemyProcessor_bits) |-> Int_field(EnemyProcessor_bits[i])]

ClassProcessor_struct == <<PascalStr, Data(59)>>

SkillProcessor_struct == <<PascalStr, Data(47), PascalStr>>

\* ItemProcessor: type_id, name, price, desc, then 'extras': the equipment
\* struct for the groups 0..10, the rest of the sub-slice for the others.
struct_general == <<Int_field(16), PascalStr, Int_field(32), PascalStr>>

struct_equipment ==
    SimpleStruct(<<Int_field(16), Int_field(16), Int_field(8), Int_field(8),
                   Int_field(16), Int_field(16), Int_field(16), Int_field(8),
                   Int_field(8), Int_field(8), Int_field(8), Int_field(8),
                   Int_field(8), Int_field(8), Int_field(8), Int_field(8)>>)

group_structs == [item_gid \in 0..10 |-> struct_equipment]

ItemProcessor_struct(item_gid) ==
    struct_general
        \o <<IF item_gid \in DOMAIN group_structs THEN group_structs[item_gid] ELSE DataRest>>

\* The schema of a Pascal-array processor for the target proc names.
struct_of(proc) ==
    CASE proc.name = "questproc" -> QuestProcessor_struct
      [] proc.name = "enemyproc" -> EnemyProcessor_struct
      [] proc.name = "classproc" -> ClassProcessor_struct
      [] proc.name = "skillproc" -> SkillProcessor_struct
      [] proc.name = "itemproc" -> ItemProcessor_struct(proc.item_gid)

\* SceneProcessor.disassemble: the 15-byte header, whose first three bytes
\* are the length widths of the three ext arrays; arr1 and arr2 are kept as
\* bytes, the third array's elements are read with read_str.
SceneProcessor_disassemble(b) ==
    LET failed == [ok |-> FALSE, obj |-> <<>>, n_warn |-> 0]
        collected(header, arr1, arr2, strings, strs) ==
            [ok |-> strings.ok,
             obj |-> [strings |-> [i \in 1..Len(strs) |-> strs[i].val],
                      header |-> header.data, arr1 |-> arr1.elems, arr2 |-> arr2.elems],
             n_warn |-> warnings_of(strs)]
        read_strs(header, arr1, arr2, strings) ==
            collected(header, arr1, arr2, strings,
                      [i \in 1..Len(strings.elems) |-> read_str(open_fd(strings.elems[i]))])
        read_strings(header, arr1, arr2) ==
            IF ~arr2.ok THEN failed
            ELSE read_strs(header, arr1, arr2, read_ext_array(arr2.fd, header.data[3]))
        read_arr2(header, arr1) ==
            IF ~arr1.ok THEN failed
            ELSE read_strings(header, arr1, read_ext_array(arr1.fd, header.data[2]))
        read_arr1(header) ==
            IF ~header.ok THEN failed
            ELSE read_arr2(header, read_ext_array(header.fd, header.data[1]))
    IN  read_arr1(strict_read(open_fd(b), 15))

\* SceneProcessor.assemble.
SceneProcessor_assemble(in_obj) ==
    LET header == in_obj.header
        data_cbs(arr) == [i \in 1..Len(arr) |-> Data_write(arr[i])]
        write_strings(w3) == [ok |-> w3.ok, data |-> w3.fd.buf]
        write_arr2(w2) ==
            IF ~w2.ok THEN [ok |-> FALSE, data |-> w2.fd.buf]
            ELSE write_strings(
                     write_ext_array(w2.fd,
                                     [i \in 1..Len(in_obj.strings) |->
                                         write_str(in_obj.strings[i])],
                                     header[3]))
        write_arr1(w1) ==
            IF ~w1.ok THEN [ok |-> FALSE, data |-> w1.fd.buf]
            ELSE write_arr2(write_ext_array(w1.fd, data_cbs(in_obj.arr2), header[2]))
    IN  write_arr1(write_ext_array(fd_write(open_fd(<<>>), header),
                                   data_cbs(in_obj.arr1), header[1]))

\* disassemble and assemble of the processor whose target is being handled.
disassemble(proc, b) ==
    LET read(r) == [ok |-> r.ok, obj |-> r.obj, n_warn |-> r.n_warn]
    IN  CASE proc.name = "commontextproc" -> CommonText_disassemble(b)
          [] proc.name = "sceneproc" -> SceneProcessor_disassemble(b)
          [] OTHER -> read(PascalArray_read(struct_of(proc), open_fd(b)))

assemble(proc, in_obj) ==
    LET written(w) == [ok |-> w.ok, data |-> w.fd.buf]
    IN  CASE proc.name = "commontextproc" -> CommonText_assemble(in_obj)
          [] proc.name = "sceneproc" -> SceneProcessor_assemble(in_obj)
          [] OTHER -> written(PascalArray_write(struct_of(proc), open_fd(<<>>), in_obj))

----------------------------------------------------------------------------
(* A run of a record processor on one target file: disassemble, then       *)
(* assemble of the object disassemble returned.                            *)

MaxRecords == 2     \* elements of a target file's array

\* Pascal strings as a file may store them: "", "A", U+AC00 by its code,
\* a byte the codepage does not decode, and U+AC00 by its make-up sequence.
\* The first three are what encode_str produces for the string they hold.
StoredStrings ==
    {<<0>>, <<1, 65>>, <<2, 176, 161>>, <<1, 255>>, <<8>> \o make_up_sequence}

CanonicalStrings == {<<0>>, <<1, 65>>, <<2, 176, 161>>}

\* The bytes of one field of an element, every string of it stored as
\* str.  Integer fields stay below 2^31.
RECURSIVE field_bytes(_, _)
field_bytes(v, str) ==
    CASE v.k = "Data" -> IF v.size < 0 THEN <<200, 0>>
                         ELSE [i \in 1..v.size |-> (37 * i) % 256]
      [] v.k = "Int" -> [i \in 1..(v.bits \div 8) |-> 100 + i]
      [] v.k = "PascalStr" -> str
      [] v.k = "SimpleStruct" ->
            Concat([i \in 1..Len(v.struct_dict) |-> field_bytes(v.struct_dict[i], str)])

\* The bytes of one element laid out by a schema.
element_bytes(struct_dict, str) ==
    Concat([i \in 1..Len(struct_dict) |-> field_bytes(struct_dict[i], str)])

\* The processors, with the group number of the target's file name
\* (item_NN.dat) for ItemProcessor.
Processors ==
    {[name |-> n, item_gid |-> 0] :
        n \in {"commontextproc", "questproc", "enemyproc", "classproc", "skillproc",
               "sceneproc"}}
    \cup {[name |-> "itemproc", item_gid |-> g] : g \in {5, 12}}

\* Whether the schema's last field takes the rest of the sub-slice.
takes_rest(proc) ==
    proc.name = "itemproc" /\ proc.item_gid \notin DOMAIN group_structs

\* The element sub-slices a target of proc may hold: the schema's bytes,
\* then nothing or one byte more.  An element is canonical when its strings
\* are and the schema consumes it whole.
Elements(proc) ==
    {[data |-> (IF proc.name = "commontextproc" THEN str
                ELSE element_bytes(struct_of(proc), str)) \o extra,
      canonical |-> str \in CanonicalStrings /\ (extra = <<>> \/ takes_rest(proc))] :
        str \in StoredStrings, extra \in {<<>>, <<9>>}}

\* The elements of a Scene file's third array: "0" and U+AC00 with their
\* NUL, "0" with a byte after the NUL, "0" without NUL, nothing at all, and
\* an undecodable byte.
SceneStrings ==
    {[data |-> <<48, 0>>, canonical |-> TRUE],
     [data |-> <<176, 161, 0>>, canonical |-> TRUE],
     [data |-> <<48, 0, 122>>, canonical |-> FALSE],
     [data |-> <<48>>, canonical |-> FALSE],
     [data |-> <<>>, canonical |-> FALSE],
     [data |-> <<255, 0>>, canonical |-> FALSE]}

SceneHeaders ==
    {lspec \o [i \in 1..12 |-> i] : lspec \in {<<1, 2, 1>>, <<2, 1, 2>>, <<1, 1, 3>>}}

\* An ext array as stored.
ext_array_bytes(elems, lspec_size) ==
    <<Len(elems)>>
        \o Concat([i \in 1..Len(elems) |-> int_to_bytes(Len(elems[i]), lspec_bytes(lspec_size))])
        \o Concat(elems)

\* A Pascal array as stored, 16 bits wide.
pascal_array_bytes(elems) ==
    write_le16_bytes(Len(elems))
        \o Concat([i \in 1..Len(elems) |-> write_le16_bytes(Len(elems[i])) \o elems[i]])

\* The contents of a target file: the array (for a Scene file the header
\* and the three arrays), a tail of nothing or one byte, the last cut bytes
\* missing.  A file is canonical when its elements are, nothing follows the
\* last of them and nothing is missing.
TargetFiles(proc) ==
    IF proc.name = "sceneproc"
    THEN {[data |-> LET b == header \o ext_array_bytes(arr1, header[1])
                                  \o ext_array_bytes(<< <<7>> >>, header[2])
                                  \o ext_array_bytes([i \in 1..Len(es) |-> es[i].data],
                                                     header[3])
                                  \o tail
                    IN  SubSeq(b, 1, Len(b) - cut),
           canonical |-> (\A i \in 1..Len(es) : es[i].canonical) /\ tail = <<>> /\ cut = 0] :
             header \in SceneHeaders, arr1 \in {<<>>, << <<97, 98>>, <<>> >>},
             es \in SeqsUpTo(SceneStrings, MaxRecords), tail \in {<<>>, <<0>>},
             cut \in {0, 1}}
    ELSE {[data |-> LET b == pascal_array_bytes([i \in 1..Len(es) |-> es[i].data]) \o tail
                    IN  SubSeq(b, 1, Len(b) - cut),
           canonical |-> (\A i \in 1..Len(es) : es[i].canonical) /\ tail = <<>> /\ cut = 0] :
             es \in SeqsUpTo(Elements(proc), MaxRecords), tail \in {<<>>, <<0>>},
             cut \in {0, 1}}

InitRecord ==
    /\ HL5ToolNotRun
    /\ pascal = NotRun /\ gbm = NotRun
    /\ hasher = NotRun /\ item = NotRun /\ encoder = NotRun /\ packer = NotRun /\ legacy = NotRun /\ cli = NotRun /\ writer = NotRun
    /\ \E proc \in Processors :
          \E file \in TargetFiles(proc) :
             record = [pc |-> "raw", proc |-> proc, data |-> file.data,
                       canonical |-> file.canonical, out_obj |-> <<>>, n_warn |-> 0,
                       out |-> <<>>]

\* self.disassemble(in_fd) on the target's bytes.
RecordDisassemble ==
    /\ record.pc = "raw"
    /\ LET returned(d) ==
               record' = [record EXCEPT !.pc = IF d.ok THEN "disassembled" ELSE "rejected",
                                        !.out_obj = IF d.ok THEN d.obj ELSE <<>>,
                                        !.n_warn = d.n_warn]
       IN  returned(disassemble(record.proc, record.data))
    /\ UNCHANGED <<hl5_vars, pascal, gbm, hasher, item, encoder, packer, legacy, cli, writer>>

\* self.assemble(in_obj, out_fd) on the object, into a file opened 'wb'.
RecordAssemble ==
    /\ record.pc = "disassembled"
    /\ LET returned(a) ==
               record' = [record EXCEPT
                              !.pc = IF a.ok THEN "assembled" ELSE "assemble failed",
                              !.out = a.data]
       IN  returned(assemble(record.proc, record.out_obj))
    /\ UNCHANGED <<hl5_vars, pascal, gbm, hasher, item, encoder, packer, legacy, cli, writer>>

NextRecord == RecordDisassemble \/ RecordAssemble

SpecRecord == InitRecord /\ [][NextRecord]_vars

\* C2 as claimed: whatever target file disassemble accepts, assemble of the
\* object it returned succeeds and writes the file's bytes.
C2_LosslessWhateverAccepted ==
    /\ record.pc # "assemble failed"
    /\ record.pc = "assembled" => record.out = record.data

\* C2, amended: a target file in canonical form (every element sub-slice is
\* exactly what its schema consumes, every string is stored as the legacy
\* encoding of the string it decodes to, every scene string element is the
\* string and its one NUL, nothing follows the last element) is accepted by
\* disassemble, and assemble of the object writes the file's bytes.
C2_LosslessCanonical ==
    record.pc # "not run" /\ record.canonical =>
        /\ record.pc \notin {"rejected", "assemble failed"}
        /\ record.n_warn = 0
        /\ record.pc = "assembled" => record.out = record.data

\* The case of C2: an equipment item file of two elements, one holding a
\* two-byte character, disassembled and assembled again.
C2_Witness ==
    /\ record.pc = "assembled" /\ record.canonical
    /\ record.proc = [name |-> "itemproc", item_gid |-> 5]
    /\ Len(record.out_obj) = MaxRecords
    /\ \E i \in 1..Len(record.out_obj) : record.out_obj[i][2] = <<256 * 176 + 161>>

----------------------------------------------------------------------------
(* The GBM image codec.  A palette entry is a 16-bit word, a raster pixel  *)
(* the tuple <<r, g, b, a>>; the PNG file between disassemble and assemble *)
(* is the raster it stores, [width, height, imgdata].                      *)

MaxWidth == 3       \* width of an input image
MaxHeight == 2      \* height of an input image
MaxPalette == 3     \* palette entries of an input image

\* The palette word of a fully transparent pixel.
transparent == 63519

GBM_HEADER == <<Int_field(8), Int_field(8), Int_field(16), Int_field(16)>>

\* Mutant: the quotient is cut, not rounded.
round_div_cut(n, d) == n \div d

\* round(n / d) for the quotients of the codec, none of which lies halfway
\* between two integers.
round_div(n, d) == (2 * n + d) \div (2 * d)

\* Mutant: the channels are widened by shifting.
to_rgba_shifted(c) ==
    <<((c \div 2048) % 32) * 8, ((c \div 32) % 64) * 4, (c % 32) * 8,
      IF c = transparent THEN 0 ELSE 255>>

\* to_png's to_rgba: a palette word to <<r, g, b, a>>.
to_rgba(c) ==
    LET b == c % 32
        g == (c \div 32) % 64
        r == (c \div 2048) % 32
        a == IF c = transparent THEN 0 ELSE 255
    IN  <<round_div(r * 255, 31), round_div(g * 255, 63), round_div(b * 255, 31), a>>

\* Mutant: a pixel of alpha 0 is quantised like any other.
pix_to_gbm_opaque(rgba) ==
    (round_div(rgba[3] * 31, 255) % 32) + 32 * (round_div(rgba[2] * 63, 255) % 64)
        + 2048 * (round_div(rgba[1] * 31, 255) % 32)

\* from_png's pix_to_gbm: <<r, g, b, a>> to a palette word.
pix_to_gbm(rgba) ==
    IF rgba[4] = 0 THEN transparent
    ELSE LET r == round_div(rgba[1] * 31, 255)
             g == round_div(rgba[2] * 63, 255)
             b == round_div(rgba[3] * 31, 255)
         IN  (b % 32) + 32 * (g % 64) + 2048 * (r % 32)

\* open's read_4bit_pixdata: each row is npixel // height // 2 bytes, two
\* pixels a byte, high nibble first; the last pixel of an odd row's last
\* byte is removed.
read_4bit_pixdata(fd, width, height) ==
    LET odd_row == width % 2 # 0
        npixel == width * height + (IF odd_row THEN height ELSE 0)
        row_bytes == IF height = 0 THEN 0 ELSE (npixel \div height) \div 2
        unpacked(rows) ==
            LET pix(n) == LET row == (n - 1) \div width
                              col == (n - 1) % width
                              byte == rows.data[row * row_bytes + col \div 2 + 1]
                          IN  IF col % 2 = 0 THEN byte \div 16 ELSE byte % 16
            IN  [ok |-> rows.ok,
                 pixel_data |-> IF rows.ok THEN [n \in 1..(width * height) |-> pix(n)]
                                ELSE <<>>,
                 fd |-> rows.fd]
    IN  unpacked(strict_read(fd, height * row_bytes))

\* GbmImg.open: the header, the palette, the pixel indices.  die() when the
\* low nibble of the colour byte is neither 4 nor 8.
GbmImg_open(b) ==
    LET failed == [ok |-> FALSE, color_bit |-> 0, unk0 |-> 0, width |-> 0, height |-> 0,
                   palette_data |-> <<>>, pixel_data |-> <<>>, rest |-> <<>>]
        read_palette(header) ==
            LET color_bit == header.val[1] % 16
                unk0 == header.val[1] \div 16
                palette_size == header.val[2]
                width == header.val[3]
                height == header.val[4]
                read_8bit_pixdata(r) == [ok |-> r.ok, pixel_data |-> r.data, fd |-> r.fd]
                opened(palette, pixels) ==
                    IF ~pixels.ok THEN failed
                    ELSE [ok |-> TRUE, color_bit |-> color_bit, unk0 |-> unk0,
                          width |-> width, height |-> height,
                          palette_data |->
                              [i \in 1..palette_size |->
                                  int_from_bytes(SubSeq(palette.data, 2 * i - 1, 2 * i))],
                          pixel_data |-> pixels.pixel_data,
                          rest |-> fd_rest(pixels.fd)]
                read_pixels(palette) ==
                    IF ~palette.ok THEN failed
                    ELSE opened(palette,
                                IF color_bit = 8
                                THEN read_8bit_pixdata(strict_read(palette.fd, width * height))
                                ELSE read_4bit_pixdata(palette.fd, width, height))
            IN  IF ~header.ok THEN failed
                ELSE IF color_bit \notin {4, 8} THEN failed
                ELSE read_pixels(strict_read(header.fd, 2 * palette_size))
    IN  read_palette(SimpleStruct_read(GBM_HEADER, open_fd(b)))

\* GbmImg.to_png: the raster of the image.  IndexError when a pixel's index
\* is not in the palette.  (The images of the model have at least one
\* pixel; what the imaging library does with none is not modelled.)
GbmImg_to_png(img) ==
    IF \E n \in 1..Len(img.pixel_data) : img.pixel_data[n] >= Len(img.palette_data)
    THEN [ok |-> FALSE, png |-> <<>>]
    ELSE [ok |-> TRUE,
          png |-> [width |-> img.width, height |-> img.height,
                   imgdata |-> [n \in 1..Len(img.pixel_data) |->
                                   to_rgba(img.palette_data[img.pixel_data[n] + 1])]]]

\* GbmImg.from_png: the words of the pixels, the palette list(set(...)) of
\* them in the order gbm_palette_data, one of the orders a set may take,
\* and every pixel's index in it.
GbmImg_from_png(png, color_bit, unk0, gbm_palette_data) ==
    LET p_i(p) == CHOOSE i \in 1..Len(gbm_palette_data) : gbm_palette_data[i] = p
        indexed(gbm_imgdata) ==
            [ok |-> color_bit \in {4, 8} /\ Len(gbm_palette_data) <= 256,
             color_bit |-> color_bit, unk0 |-> unk0,
             width |-> png.width, height |-> png.height,
             palette_data |-> gbm_palette_data,
             pixel_data |-> [n \in 1..Len(gbm_imgdata) |-> p_i(gbm_imgdata[n]) - 1]]
    IN  indexed([n \in 1..Len(png.imgdata) |-> pix_to_gbm(png.imgdata[n])])

\* The distinct words of a list, each at the place of its first occurrence.
first_seen(words) ==
    LET first(p) == \A m \in 1..(p[1] - 1) : words[m] # p[2]
        kept(pairs) == [i \in 1..Len(pairs) |-> pairs[i][2]]
    IN  kept(SelectSeq([n \in 1..Len(words) |-> <<n, words[n]>>], first))

\* The orders list(set(gbm_imgdata)) may have: any order of the distinct
\* words when they are at most MaxPalette, and beyond that the first-seen,
\* the ascending and the descending order.
palette_orders(png) ==
    LET ordered(distinct) ==
            IF Len(distinct) <= MaxPalette THEN Orderings(Range(distinct))
            ELSE {distinct, SortSeq(distinct, <), SortSeq(distinct, >)}
    IN  ordered(first_seen([n \in 1..Len(png.imgdata) |-> pix_to_gbm(png.imgdata[n])]))

\* Mutant: the low nibble holds the first pixel of a pair.
pack_4bit_low_first(high, low) == (low % 16) * 16 + (high % 16)

\* save's (high & 0xf) << 4 | (low & 0xf).
pack_4bit(high, low) == (high % 16) * 16 + (low % 16)

\* GbmImg.save: header, palette, pixels.  At 4 bits an even width packs the
\* pixel list pair by pair; an odd width packs row by row, a 0 appended to
\* each row.  OverflowError when the palette has more than 255 entries.
GbmImg_save(img) ==
    LET npixel == Len(img.pixel_data)
        row_data(i) == SubSeq(img.pixel_data, (i - 1) * img.width + 1, i * img.width) \o <<0>>
        row_bytes(row) == [j \in 1..(Len(row) \div 2) |-> pack_4bit(row[2 * j - 1], row[2 * j])]
        saved(header, palette, pixels) ==
            IF ~header.ok THEN [ok |-> FALSE, data |-> <<>>]
            ELSE [ok |-> TRUE, data |-> header.data \o palette \o pixels]
    IN  saved(SimpleStruct_write(GBM_HEADER,
                                 <<img.unk0 * 16 + (img.color_bit % 16),
                                   Len(img.palette_data), img.width, img.height>>),
              Concat([i \in 1..Len(img.palette_data) |->
                         write_le16_bytes(img.palette_data[i])]),
              IF img.color_bit = 8 THEN img.pixel_data
              ELSE IF img.width % 2 = 0
              THEN [i \in 1..(npixel \div 2) |->
                       pack_4bit(img.pixel_data[2 * i - 1], img.pixel_data[2 * i])]
              ELSE Concat([i \in 1..img.height |-> row_bytes(row_data(i))]))

\* GbmProcessor.disassemble: the PNG and the sidecar object.
GbmProcessor_disassemble(b) ==
    LET converted(gbm_img, png) ==
            IF ~gbm_img.ok \/ ~png.ok THEN [ok |-> FALSE, png |-> <<>>, obj |-> <<>>]
            ELSE [ok |-> TRUE, png |-> png.png,
                  obj |-> [color_bit |-> gbm_img.color_bit, unk0 |-> gbm_img.unk0]]
        to_png(gbm_img) == converted(gbm_img, GbmImg_to_png(gbm_img))
    IN  to_png(GbmImg_open(b))

\* GbmProcessor.assemble.
GbmProcessor_assemble(in_obj, png, gbm_palette_data) ==
    LET save(gbm_img) ==
            IF ~gbm_img.ok THEN [ok |-> FALSE, data |-> <<>>] ELSE GbmImg_save(gbm_img)
    IN  save(GbmImg_from_png(png, in_obj.color_bit, in_obj.unk0, gbm_palette_data))

----------------------------------------------------------------------------
(* A run of GbmProcessor on one target: disassemble, then assemble from    *)
(* the PNG and the sidecar object disassemble left.                        *)

\* Palette words of the input images: black, the transparent word, and a
\* word with every channel at 1.
PaletteWords == {0, transparent, 2081}

\* The pixel indices of an input image of n pixels over a palette of
\* palette_size entries: constant, counting up from 0 or from 1, and (over)
\* the first index that is not in the palette.
PixelPatterns == {"zero", "count", "count1", "over"}

pattern_pixels(pattern, n, palette_size) ==
    LET m == IF palette_size = 0 THEN 1 ELSE palette_size
    IN  [i \in 1..n |->
            CASE pattern = "zero" -> 0
              [] pattern = "count" -> (i - 1) % m
              [] pattern = "count1" -> i % m
              [] pattern = "over" -> palette_size]

\* The pixel bytes of a stored image; at 4 bits the unused nibble of an odd
\* row holds pad.
stored_pixels(color_bit, width, height, pixel_data, pad) ==
    IF color_bit = 8 THEN pixel_data
    ELSE LET row_bytes == (width + 1) \div 2
             at(row, col) == IF col < width THEN pixel_data[row * width + col + 1] ELSE pad
         IN  [k \in 1..(height * row_bytes) |->
                 LET row == (k - 1) \div row_bytes
                     col == 2 * ((k - 1) % row_bytes)
                 IN  16 * at(row, col) + at(row, col + 1)]

\* A stored image of at least one pixel and what is known of it: valid when its colour depth is
\* 4 or 8 and every pixel index is in the palette; exact when, besides, no
\* unused nibble is set and nothing follows the pixel data.
GbmFiles ==
    {[data |-> <<unk0 * 16 + color_bit, Len(palette)>>
                  \o write_le16_bytes(width) \o write_le16_bytes(height)
                  \o Concat([i \in 1..Len(palette) |-> write_le16_bytes(palette[i])])
                  \o stored_pixels(color_bit, width, height,
                                   pattern_pixels(pattern, width * height, Len(palette)), pad)
                  \o tail,
      valid |-> color_bit \in {4, 8} /\ pattern # "over" /\ palette # <<>>,
      exact |-> pad = 0 /\ tail = <<>>] :
        color_bit \in {4, 8, 5}, unk0 \in {0, 9}, width \in 1..MaxWidth,
        height \in 1..MaxHeight, palette \in SeqsUpTo(PaletteWords, MaxPalette),
        pattern \in PixelPatterns, pad \in {0, 5}, tail \in {<<>>, <<0>>}}

InitGbm ==
    /\ HL5ToolNotRun
    /\ pascal = NotRun /\ record = NotRun
    /\ hasher = NotRun /\ item = NotRun /\ encoder = NotRun /\ packer = NotRun /\ legacy = NotRun /\ cli = NotRun /\ writer = NotRun
    /\ \E file \in GbmFiles :
          gbm = [pc |-> "raw", data |-> file.data, valid |-> file.valid,
                 exact |-> file.exact, png |-> <<>>, out_obj |-> <<>>, out |-> <<>>]

\* GbmProcessor.disassemble on the target's bytes.
GbmDisassemble ==
    /\ gbm.pc = "raw"
    /\ LET returned(d) ==
               gbm' = [gbm EXCEPT !.pc = IF d.ok THEN "disassembled" ELSE "rejected",
                                  !.png = d.png, !.out_obj = d.obj]
       IN  returned(GbmProcessor_disassemble(gbm.data))
    /\ UNCHANGED <<hl5_vars, pascal, record, hasher, item, encoder, packer, legacy, cli, writer>>

\* GbmProcessor.assemble from the PNG and the sidecar object.
GbmAssemble ==
    /\ gbm.pc = "disassembled"
    /\ \E gbm_palette_data \in palette_orders(gbm.png) :
          LET returned(a) ==
                  gbm' = [gbm EXCEPT !.pc = IF a.ok THEN "assembled" ELSE "assemble failed",
                                     !.out = a.data]
          IN  returned(GbmProcessor_assemble(gbm.out_obj, gbm.png, gbm_palette_data))
    /\ UNCHANGED <<hl5_vars, pascal, record, hasher, item, encoder, packer, legacy, cli, writer>>

NextGbm == GbmDisassemble \/ GbmAssemble

SpecGbm == InitGbm /\ [][NextGbm]_vars

used_words(img) == {img.palette_data[img.pixel_data[n] + 1] : n \in 1..Len(img.pixel_data)}

----------------------------------------------------------------------------
(* A run of VFSProcessor.hash on one path, one pass of its loop at a time. *)

MaxPath == 5        \* characters of a hashed path

\* The characters of the paths: "/", "a", DEL and U+00E9, which is not
\* ASCII.
PathChars == {47, 97, 127, 233}

InitHash ==
    /\ HL5ToolNotRun
    /\ pascal = NotRun /\ record = NotRun /\ gbm = NotRun
    /\ item = NotRun /\ encoder = NotRun /\ packer = NotRun /\ legacy = NotRun /\ cli = NotRun /\ writer = NotRun
    /\ \E string \in SeqsUpTo(PathChars, MaxPath) :
          hasher = [pc |-> "called", string |-> string, rest |-> <<>>, acc |-> <<>>]

\* acc = 0x1505 and bytes(string, 'ascii'): UnicodeEncodeError when a
\* character is not ASCII.
HashEnter ==
    /\ hasher.pc = "called"
    /\ hasher' = IF \A i \in 1..Len(hasher.string) : hasher.string[i] < 128
                 THEN [hasher EXCEPT !.pc = "loop", !.rest = hasher.string,
                                     !.acc = <<5, 21, 0, 0>>]
                 ELSE [hasher EXCEPT !.pc = "raised"]
    /\ UNCHANGED <<hl5_vars, pascal, record, gbm, item, encoder, packer, legacy, cli, writer>>

\* One pass of the loop.
HashByte ==
    /\ hasher.pc = "loop" /\ hasher.rest # <<>>
    /\ hasher' = [hasher EXCEPT !.acc = hash_step(hasher.acc, Head(hasher.rest)),
                                !.rest = Tail(hasher.rest)]
    /\ UNCHANGED <<hl5_vars, pascal, record, gbm, item, encoder, packer, legacy, cli, writer>>

\* return acc
HashReturn ==
    /\ hasher.pc = "loop" /\ hasher.rest = <<>>
    /\ hasher' = [hasher EXCEPT !.pc = "returned"]
    /\ UNCHANGED <<hl5_vars, pascal, record, gbm, item, encoder, packer, legacy, cli, writer>>

NextHash == HashEnter \/ HashByte \/ HashReturn

SpecHash == InitHash /\ [][NextHash]_vars

\* The DJB2 recurrence acc = (acc * 33 + c) mod 2^32 on the two 16-bit
\* halves of acc, from 0x1505.
RECURSIVE djb2_from(_, _)
djb2_from(v, string) ==
    IF string = <<>> THEN v
    ELSE LET lo == v.lo * 33 + Head(string)
             hi == v.hi * 33 + lo \div 65536
         IN  djb2_from([hi |-> hi % 65536, lo |-> lo % 65536], Tail(string))

djb2(string) == djb2_from([hi |-> 0, lo |-> 5381], string)

\* C12: the hash of an ASCII path is the value of the DJB2 recurrence from
\* 0x1505, taken mod 2^32 at every byte; it is a 32-bit value (four bytes
\* in 0..255), the same as the archive code's hash of the path, and the
\* hash of the empty path is 0x00001505.
C12_HashIsDjb2 ==
    hasher.pc = "returned"
        => /\ Len(hasher.acc) = 4 /\ \A i \in 1..4 : hasher.acc[i] \in 0..255
           /\ [hi |-> hasher.acc[3] + 256 * hasher.acc[4],
               lo |-> hasher.acc[1] + 256 * hasher.acc[2]] = djb2(hasher.string)
           /\ hasher.acc = hash(hasher.string)
           /\ hasher.string = <<>> => hasher.acc = <<5, 21, 0, 0>>

\* The case of C12: the hash of a path long enough for the recurrence to
\* pass 2^32 (the hash is below that of the path less its last character).
C12_Witness ==
    /\ hasher.pc = "returned" /\ Len(hasher.string) = MaxPath
    /\ hasher.acc[3] + 256 * hasher.acc[4]
           < djb2(SubSeq(hasher.string, 1, MaxPath - 1)).hi

\* C13 as stated: the hash of the path "a" is 0x0002B5E5.
C13_HashOfA_Is2B5E5 ==
    (hasher.pc = "returned" /\ hasher.string = <<97>>)
        => hasher.acc = <<229, 181, 2, 0>>

\* C13, amended: the hash of the path "a" is 0x0002B606
\* (0x1505 * 33 + 0x61).
C13_HashOfA ==
    (hasher.pc = "returned" /\ hasher.string = <<97>>)
        => hasher.acc = <<6, 182, 2, 0>>

\* The case of C13: hash("a") has returned.
C13_Witness == hasher.pc = "returned" /\ hasher.string = <<97>>

----------------------------------------------------------------------------
(* A run of the image codec from a raster: GbmProcessor.assemble's         *)
(* from_png and save, then GbmProcessor.disassemble's open and to_png on   *)
(* what was saved, and the same once more on the raster that came out.     *)

MaxPasses == 2      \* encode-decode passes of a run

\* Colours of the small rasters: black, a colour of black's palette word,
\* white, opaque magenta and the faintest colour of its word 0xF81F, and
\* two transparent pixels.
RasterColours ==
    {<<0, 0, 0, 255>>, <<3, 1, 3, 255>>, <<255, 255, 255, 255>>, <<255, 0, 255, 255>>,
     <<251, 2, 251, 255>>, <<0, 0, 0, 0>>, <<10, 200, 30, 0>>}

\* The rasters: one pixel with every channel at v, for every v, opaque or
\* half opaque; every small raster whose pixels cycle through one or two
\* colours; one row of n pixels of n palette words, for the n around the
\* limits of the two depths and of the palette; one row of a transparent
\* pixel and sixteen palette words.
ManyColours == {15, 16, 17, 255, 256, 257}

Rasters ==
    {[width |-> 1, height |-> 1, imgdata |-> << <<v, v, v, a>> >>] :
        v \in 0..255, a \in {255, 128}}
    \cup {[width |-> w, height |-> h,
           imgdata |-> [n \in 1..(w * h) |-> cs[((n - 1) % Len(cs)) + 1]]] :
             w \in 1..MaxWidth, h \in 1..MaxHeight,
             cs \in UNION {[1..k -> RasterColours] : k \in 1..2}}
    \cup {[width |-> n, height |-> 1, imgdata |-> [i \in 1..n |-> to_rgba(i - 1)]] :
             n \in ManyColours}
    \cup {[width |-> 17, height |-> 1,
           imgdata |-> [i \in 1..17 |-> IF i = 1 THEN <<0, 0, 0, 0>> ELSE to_rgba(i - 2)]]}

InitEncoder ==
    /\ HL5ToolNotRun
    /\ pascal = NotRun /\ record = NotRun /\ gbm = NotRun
    /\ hasher = NotRun /\ item = NotRun /\ packer = NotRun /\ legacy = NotRun /\ cli = NotRun /\ writer = NotRun
    /\ \E png \in Rasters, color_bit \in {4, 8, 5}, unk0 \in {0, 9} :
          encoder = [pc |-> "png", in_obj |-> [color_bit |-> color_bit, unk0 |-> unk0],
                     first |-> png, png |-> png, img |-> <<>>, data |-> <<>>,
                     decoded |-> <<>>]

\* gbm_img.from_png(png_fd, color_bit, unk0): die() at a depth other than 4
\* and 8 and at more than 256 palette words.
EncoderFromPng ==
    /\ encoder.pc = "png"
    /\ \E gbm_palette_data \in palette_orders(encoder.png) :
          LET converted(gbm_img) ==
                  encoder' = [encoder EXCEPT !.pc = IF gbm_img.ok THEN "image" ELSE "died",
                                             !.img = gbm_img]
          IN  converted(GbmImg_from_png(encoder.png, encoder.in_obj.color_bit,
                                        encoder.in_obj.unk0, gbm_palette_data))
    /\ UNCHANGED <<hl5_vars, pascal, record, gbm, hasher, item, packer, legacy, cli, writer>>

\* gbm_img.save(out_fd).
EncoderSave ==
    /\ encoder.pc = "image"
    /\ LET written(saved) ==
               encoder' = [encoder EXCEPT !.pc = IF saved.ok THEN "saved" ELSE "save raised",
                                          !.data = saved.data]
       IN  written(GbmImg_save(encoder.img))
    /\ UNCHANGED <<hl5_vars, pascal, record, gbm, hasher, item, packer, legacy, cli, writer>>

\* GbmImg(in_fd) on the bytes saved.
EncoderOpen ==
    /\ encoder.pc = "saved"
    /\ LET read(gbm_img) ==
               encoder' = [encoder EXCEPT !.pc = IF gbm_img.ok THEN "opened" ELSE "open raised",
                                          !.img = gbm_img]
       IN  read(GbmImg_open(encoder.data))
    /\ UNCHANGED <<hl5_vars, pascal, record, gbm, hasher, item, packer, legacy, cli, writer>>

\* gbm_img.to_png(png_fd); the raster that comes out is the next pass's.
EncoderToPng ==
    /\ encoder.pc = "opened"
    /\ LET drawn(r) ==
               encoder' =
                   IF ~r.ok THEN [encoder EXCEPT !.pc = "to_png raised"]
                   ELSE [encoder EXCEPT
                             !.pc = IF Len(encoder.decoded) + 1 < MaxPasses
                                    THEN "png" ELSE "done",
                             !.png = r.png,
                             !.decoded = Append(encoder.decoded, r.png)]
       IN  drawn(GbmImg_to_png(encoder.img))
    /\ UNCHANGED <<hl5_vars, pascal, record, gbm, hasher, item, packer, legacy, cli, writer>>

NextEncoder == EncoderFromPng \/ EncoderSave \/ EncoderOpen \/ EncoderToPng

SpecEncoder == InitEncoder /\ [][NextEncoder]_vars

\* C14: when a raster has been encoded and decoded, encoding and decoding
\* the raster that came out succeeds and gives that raster again; and the
\* palette word of every pixel of the raster first encoded is the palette
\* word of the colour that word decodes to (a channel quantised, widened
\* and quantised again keeps its 5 or 6 bits).
C14_Idempotent ==
    /\ Len(encoder.decoded) >= 1 => encoder.pc \in {"png", "image", "saved", "opened", "done"}
    /\ Len(encoder.decoded) = 2 => encoder.decoded[2] = encoder.decoded[1]
    /\ encoder.pc = "done" =>
          \A n \in 1..Len(encoder.first.imgdata) :
              pix_to_gbm(to_rgba(pix_to_gbm(encoder.first.imgdata[n])))
                  = pix_to_gbm(encoder.first.imgdata[n])

\* The case of C14: two passes done on a raster that quantisation changes,
\* among them the raster of 17 colours at 4 bits, whose decoded raster has
\* fewer colours than it.
C14_Witness ==
    /\ encoder.pc = "done"
    /\ encoder.in_obj.color_bit = 4 /\ Len(encoder.first.imgdata) = 17
    /\ encoder.decoded[1] # encoder.first

\* The palette word of pixel n of an image.
word_of(img, n) == img.palette_data[img.pixel_data[n] + 1]

\* C16: the image from_png builds gives the word 0xF81F to every pixel of
\* alpha 0, whatever its other channels; the raster to_png draws has alpha
\* 0 where the image's word is 0xF81F and alpha 255 everywhere else.
C16_Sentinel ==
    /\ encoder.pc = "image" =>
          \A n \in 1..Len(encoder.png.imgdata) :
              encoder.png.imgdata[n][4] = 0 => word_of(encoder.img, n) = 63519
    /\ encoder.pc \in {"png", "done"} /\ encoder.decoded # <<>> =>
          \A n \in 1..Len(encoder.png.imgdata) :
              encoder.png.imgdata[n][4]
                  = IF word_of(encoder.img, n) = 63519 THEN 0 ELSE 255

\* The case of C16: a raster with a pixel of alpha 0 that is not magenta
\* and an opaque pixel, encoded and decoded.
C16_Witness ==
    /\ encoder.pc = "done"
    /\ \E n \in 1..Len(encoder.first.imgdata) : encoder.first.imgdata[n] = <<10, 200, 30, 0>>
    /\ \E n \in 1..Len(encoder.first.imgdata) : encoder.first.imgdata[n][4] = 255
    /\ \E n \in 1..Len(encoder.png.imgdata) : encoder.png.imgdata[n] = <<255, 0, 255, 0>>

\* The distinct palette words of a raster.
quantised_words(png) == {pix_to_gbm(png.imgdata[n]) : n \in 1..Len(png.imgdata)}

\* C18 as stated: at a depth of 4 or 8, the palette of the image built is
\* the distinct words of the raster, each once; the encoding (from_png,
\* then save) succeeds when they are at most 256 and stops in from_png
\* with the palette overflow when they are more.
C18_PaletteLimit ==
    encoder.in_obj.color_bit \in {4, 8} =>
        /\ encoder.pc = "image" =>
              /\ Range(encoder.img.palette_data) = quantised_words(encoder.png)
              /\ Len(encoder.img.palette_data) = Cardinality(quantised_words(encoder.png))
        /\ Cardinality(quantised_words(encoder.png)) > 256 => encoder.pc \in {"png", "died"}
        /\ Cardinality(quantised_words(encoder.png)) <= 256 =>
              encoder.pc \notin {"died", "save raised"}

----------------------------------------------------------------------------
(* A run of GbmImg.save on an image object, then GbmImg.open on the bytes  *)
(* it wrote.                                                               *)

MaxPackWidth == 5    \* width of the image object
MaxPackHeight == 2   \* height of the image object

\* The palette of the image objects: sixteen words.
PackPalette == [i \in 1..16 |-> i - 1]

\* The pixel indices of an image object of n pixels: counting up from any
\* index, constant, and for up to two pixels every choice.
PackPixels(n) ==
    {[i \in 1..n |-> (first + i - 1) % 16] : first \in 0..15}
        \cup {[i \in 1..n |-> c] : c \in 0..15}
        \cup (IF n <= 2 THEN [1..n -> 0..15] ELSE {})

InitPack ==
    /\ HL5ToolNotRun
    /\ pascal = NotRun /\ record = NotRun /\ gbm = NotRun
    /\ hasher = NotRun /\ item = NotRun /\ encoder = NotRun /\ legacy = NotRun /\ cli = NotRun /\ writer = NotRun
    /\ \E width \in 0..MaxPackWidth, height \in 0..MaxPackHeight, color_bit \in {4, 8} :
          \E pixel_data \in PackPixels(width * height) :
              packer = [pc |-> "image",
                        img |-> [ok |-> TRUE, color_bit |-> color_bit, unk0 |-> 0,
                                 width |-> width, height |-> height,
                                 palette_data |-> PackPalette, pixel_data |-> pixel_data],
                        data |-> <<>>, opened |-> <<>>]

\* gbm_img.save(gbm_fd).
PackSave ==
    /\ packer.pc = "image"
    /\ LET written(w) ==
               packer' = [packer EXCEPT !.pc = IF w.ok THEN "saved" ELSE "save raised",
                                        !.data = w.data]
       IN  written(GbmImg_save(packer.img))
    /\ UNCHANGED <<hl5_vars, pascal, record, gbm, hasher, item, encoder, legacy, cli, writer>>

\* GbmImg(gbm_fd) on the bytes written.
PackOpen ==
    /\ packer.pc = "saved"
    /\ LET read(gbm_img) ==
               packer' = [packer EXCEPT !.pc = IF gbm_img.ok THEN "opened" ELSE "open raised",
                                        !.opened = gbm_img]
       IN  read(GbmImg_open(packer.data))
    /\ UNCHANGED <<hl5_vars, pascal, record, gbm, hasher, item, encoder, legacy, cli, writer>>

NextPack == PackSave \/ PackOpen

SpecPack == InitPack /\ [][NextPack]_vars

\* The pixel bytes of the file save wrote: what follows the six bytes of
\* the header and the two bytes of each palette word.
packed_bytes == SubSeq(packer.data, 6 + 2 * Len(packer.img.palette_data) + 1, Len(packer.data))

\* C15: at 4 bits a pixel, save writes height rows of ceil(width / 2) bytes,
\* each byte holding two indices of the row, the first in the high nibble,
\* the last byte of an odd row holding 0 in the low nibble; open reads the
\* indices back; the 5x2 image of indices 1..10 is packed as 12 34 50 67 89
\* A0 (hexadecimal).
C15_Packing ==
    (packer.pc \in {"saved", "opened", "open raised"} /\ packer.img.color_bit = 4) =>
        LET w == packer.img.width
            h == packer.img.height
            px == packer.img.pixel_data
            rb == (w + 1) \div 2
        IN  /\ Len(packed_bytes) = h * rb
            /\ \A row \in 0..(h - 1), j \in 0..(rb - 1) :
                   packed_bytes[row * rb + j + 1]
                       = 16 * px[row * w + 2 * j + 1]
                           + (IF 2 * j + 1 < w THEN px[row * w + 2 * j + 2] ELSE 0)
            /\ packer.pc # "open raised"
            /\ packer.pc = "opened" =>
                   /\ packer.opened.pixel_data = px
                   /\ packer.opened.width = w /\ packer.opened.height = h
            /\ (w = 5 /\ h = 2 /\ px = <<1, 2, 3, 4, 5, 6, 7, 8, 9, 10>>) =>
                   packed_bytes = <<18, 52, 80, 103, 137, 160>>

\* The case of C15: the 5x2 image of indices 1..10, saved and opened.
C15_Witness ==
    /\ packer.pc = "opened"
    /\ packer.img.color_bit = 4
    /\ packer.img.width = 5 /\ packer.img.height = 2
    /\ packer.img.pixel_data = <<1, 2, 3, 4, 5, 6, 7, 8, 9, 10>>

----------------------------------------------------------------------------
(* One ItemProcessor instance and a sequence of disassemble and assemble   *)
(* calls on it.  The instance keeps struct_general.struct_dict, whose      *)
(* 'extras' entry each call binds again; a file name is a sequence of      *)
(* character codes.                                                        *)

MaxCalls == 3        \* calls made on the instance

\* 'c/csv/item_%02d.dat' % i of the target list.
item_target(i) ==
    <<99, 47, 99, 115, 118, 47, 105, 116, 101, 109, 95>>
        \o <<48 + ((i \div 10) % 10), 48 + (i % 10)>> \o <<46, 100, 97, 116>>

\* The groups whose targets the calls are made on, of range(19).
ItemGroups == {0, 5, 10, 11, 15}

\* int() of a string of decimal digits.
RECURSIVE int_of_digits(_)
int_of_digits(digits) ==
    IF digits = <<>> THEN 0
    ELSE 10 * int_of_digits(SubSeq(digits, 1, Len(digits) - 1))
             + (digits[Len(digits)] - 48)

\* Mutant: the group is the last digit of the name.
get_item_gid_last_digit(fd_name) ==
    [ok |-> TRUE, item_gid |-> basename(fd_name)[Len(basename(fd_name)) - 4] - 48]

\* get_item_gid: re.match('item_([0-9]*)\\.dat', basename) and int() of
\* the group; the assert and int('') raise.
get_item_gid(fd_name) ==
    LET id_match(b) ==
            LET is_digit(i) == i <= Len(b) /\ b[i] \in 48..57
                n == CHOOSE k \in 0..Len(b) :
                         /\ \A i \in 6..(5 + k) : is_digit(i)
                         /\ ~is_digit(6 + k)
                matched == /\ Len(b) >= 9 + n
                           /\ SubSeq(b, 1, 5) = <<105, 116, 101, 109, 95>>
                           /\ SubSeq(b, 6 + n, 9 + n) = <<46, 100, 97, 116>>
            IN  [ok |-> matched /\ n > 0,
                 item_gid |-> IF matched THEN int_of_digits(SubSeq(b, 6, 5 + n)) ELSE 0]
    IN  id_match(basename(fd_name))

\* self.struct_general.struct_dict['extras'] = ...: a new key goes last, a
\* key the dict holds keeps its place.
bind_extras(struct_dict, item_gid) ==
    LET extras == IF item_gid \in DOMAIN group_structs THEN group_structs[item_gid]
                  ELSE DataRest
    IN  IF Len(struct_dict) = Len(struct_general) THEN Append(struct_dict, extras)
        ELSE [struct_dict EXCEPT ![Len(struct_general) + 1] = extras]

\* ItemProcessor.disassemble on the file fd_name holding b.
ItemProcessor_disassemble(struct_dict, fd_name, b) ==
    LET read(bound, r) ==
            [ok |-> r.ok, struct_dict |-> bound, obj |-> IF r.ok THEN r.obj ELSE <<>>]
        bind(bound) == read(bound, PascalArray_read(bound, open_fd(b)))
        dispatch(gid) ==
            IF ~gid.ok THEN [ok |-> FALSE, struct_dict |-> struct_dict, obj |-> <<>>]
            ELSE bind(bind_extras(struct_dict, gid.item_gid))
    IN  dispatch(get_item_gid(fd_name))

\* ItemProcessor.assemble of in_obj into the file fd_name.
ItemProcessor_assemble(struct_dict, fd_name, in_obj) ==
    LET written(bound, w) == [ok |-> w.ok, struct_dict |-> bound, data |-> w.fd.buf]
        bind(bound) == written(bound, PascalArray_write(bound, open_fd(<<>>), in_obj))
        dispatch(gid) ==
            IF ~gid.ok THEN [ok |-> FALSE, struct_dict |-> struct_dict, data |-> <<>>]
            ELSE bind(bind_extras(struct_dict, gid.item_gid))
    IN  dispatch(get_item_gid(fd_name))

\* What an element holds after type_id, name, price and desc: nothing,
\* three bytes, the 21 bytes of the equipment struct, one byte more.
ExtrasBytes == {[i \in 1..n |-> i] : n \in {0, 3, 21, 22}}

\* The four fields every element starts with, the strings holding "A".
general_bytes == element_bytes(struct_general, <<1, 65>>)

\* No object was disassembled from this target yet.
NoSidecar == [extras |-> <<>>, obj |-> <<>>, made |-> FALSE]

InitItem ==
    /\ HL5ToolNotRun
    /\ pascal = NotRun /\ record = NotRun /\ gbm = NotRun
    /\ hasher = NotRun /\ encoder = NotRun /\ packer = NotRun /\ legacy = NotRun /\ cli = NotRun /\ writer = NotRun
    /\ item = [pc |-> "idle", struct_dict |-> struct_general, calls |-> 0,
               op |-> "none", name |-> <<>>, extras |-> <<>>, obj |-> <<>>, out |-> <<>>,
               sidecars |-> [i \in ItemGroups |-> NoSidecar]]

\* self.disassemble(in_fd) on a target whose one element ends with extras.
ItemDisassemble ==
    /\ item.pc = "idle" /\ item.calls < MaxCalls
    /\ \E i \in ItemGroups, extras \in ExtrasBytes :
          LET returned(d) ==
                  item' = [item EXCEPT
                              !.pc = IF d.ok THEN "idle" ELSE "raised",
                              !.struct_dict = d.struct_dict,
                              !.calls = @ + 1,
                              !.op = "disassemble",
                              !.name = item_target(i),
                              !.extras = extras,
                              !.obj = d.obj,
                              !.out = <<>>,
                              !.sidecars[i] = IF d.ok
                                              THEN [extras |-> extras, obj |-> d.obj,
                                                    made |-> TRUE]
                                              ELSE @]
          IN  returned(ItemProcessor_disassemble(
                           item.struct_dict, item_target(i),
                           pascal_array_bytes(<<general_bytes \o extras>>)))
    /\ UNCHANGED <<hl5_vars, pascal, record, gbm, hasher, encoder, packer, legacy, cli, writer>>

\* self.assemble(in_obj, out_fd) of the object disassembled from the target.
ItemAssemble ==
    /\ item.pc = "idle" /\ item.calls < MaxCalls
    /\ \E i \in ItemGroups :
          /\ item.sidecars[i].made
          /\ LET returned(a) ==
                     item' = [item EXCEPT
                                 !.pc = IF a.ok THEN "idle" ELSE "raised",
                                 !.struct_dict = a.struct_dict,
                                 !.calls = @ + 1,
                                 !.op = "assemble",
                                 !.name = item_target(i),
                                 !.extras = item.sidecars[i].extras,
                                 !.obj = item.sidecars[i].obj,
                                 !.out = a.data]
             IN  returned(ItemProcessor_assemble(item.struct_dict, item_target(i),
                                                 item.sidecars[i].obj))
    /\ UNCHANGED <<hl5_vars, pascal, record, gbm, hasher, encoder, packer, legacy, cli, writer>>

NextItem == ItemDisassemble \/ ItemAssemble

SpecItem == InitItem /\ [][NextItem]_vars

\* C17: after any call, whatever calls came before it on the instance,
\* 'extras' is bound to the equipment struct of 16 fields when the number
\* in the call's file name is 0..10 and to the codec of the remaining bytes
\* otherwise.  disassemble then returns 16 fields, or the bytes left in the
\* element, and raises only when an equipment element is short; assemble
\* writes back the 21 bytes of the equipment struct, or the bytes kept.
C17_GroupDispatch ==
    item.calls > 0 =>
        \A i \in 0..18 :
            item.name = item_target(i) =>
                /\ item.struct_dict
                       = struct_general \o <<IF i <= 10 THEN struct_equipment ELSE DataRest>>
                /\ item.pc = "raised" =>
                       item.op = "disassemble" /\ i <= 10 /\ Len(item.extras) < 21
                /\ item.pc = "idle" =>
                       IF i <= 10
                       THEN /\ Len(item.extras) >= 21
                            /\ Len(item.obj[1][5]) = 16
                       ELSE item.obj[1][5] = item.extras
                /\ item.op = "assemble" =>
                       item.out = pascal_array_bytes(
                                      <<general_bytes
                                          \o (IF i <= 10 THEN SubSeq(item.extras, 1, 21)
                                              ELSE item.extras)>>)

\* The case of C17: item_15.dat is disassembled on an instance that has
\* handled item_05.dat before, and keeps all 21 bytes as one value.
C17_Witness ==
    /\ item.calls = MaxCalls /\ item.pc = "idle" /\ item.op = "disassemble"
    /\ item.name = item_target(15)
    /\ item.sidecars[5].made
    /\ Len(item.extras) = 21 /\ item.obj[1][5] = item.extras

----------------------------------------------------------------------------
(* Warnings of the record processors (SpecRecord).                         *)

\* The elements of a Pascal-array target whose sub-slice holds bytes after
\* the last field of the schema was read.
trailing_elements(proc, b) ==
    LET left_over(elems) ==
            {i \in 1..Len(elems) :
                LET item_read == SimpleStruct_read(struct_of(proc), open_fd(elems[i]))
                IN  item_read.ok /\ item_read.fd.pos < Len(elems[i])}
    IN  left_over(read_pascal_array(open_fd(b), FALSE).elems)

\* C19 as stated: when disassemble has read a Pascal-array target whose
\* schema does not end with the codec of the remaining bytes, it has warned
\* once at least for each element whose sub-slice held bytes after the last
\* field.
C19_TrailingBytesWarned ==
    (/\ record.pc \in {"disassembled", "assembled", "assemble failed"}
     /\ record.proc.name \notin {"commontextproc", "sceneproc"}
     /\ ~takes_rest(record.proc))
        => record.n_warn >= Cardinality(trailing_elements(record.proc, record.data))

----------------------------------------------------------------------------
(* decode_str on bytes and encode_str on a string, with the module's       *)
(* warning counter n_warn.                                                 *)

MaxText == 3         \* bytes or characters handed to a call

\* Bytes: "A", the two bytes of U+AC00, a byte no sequence starts with.
LegacyBytes == {65, 176, 161, 255}

\* Characters: "A", U+AC00, and U+00E9, which euc-kr does not hold.
LegacyChars == {65, 256 * 176 + 161, 233}

InitLegacy ==
    /\ HL5ToolNotRun
    /\ pascal = NotRun /\ record = NotRun /\ gbm = NotRun
    /\ hasher = NotRun /\ item = NotRun /\ encoder = NotRun /\ packer = NotRun
    /\ cli = NotRun /\ writer = NotRun
    /\ \/ \E b \in SeqsUpTo(LegacyBytes, MaxText) :
             legacy = [pc |-> "bytes", b |-> b, s |-> <<>>, n_warn |-> 0]
       \/ \E s \in SeqsUpTo(LegacyChars, MaxText) :
             legacy = [pc |-> "string", b |-> <<>>, s |-> s, n_warn |-> 0]

\* s = decode_str(b).
LegacyDecode ==
    /\ legacy.pc = "bytes"
    /\ LET returned(r) ==
               legacy' = [legacy EXCEPT !.pc = "decoded", !.s = r.s,
                                        !.n_warn = @ + (IF r.warned THEN 1 ELSE 0)]
       IN  returned(decode_str(legacy.b))
    /\ UNCHANGED <<hl5_vars, pascal, record, gbm, hasher, item, encoder, packer, cli, writer>>

\* b = encode_str(s), on a string as given or as decode_str returned it.
LegacyEncode ==
    /\ legacy.pc \in {"string", "decoded"}
    /\ LET returned(r) ==
               legacy' = [legacy EXCEPT !.pc = IF r.ok THEN "encoded" ELSE "raised",
                                        !.b = IF r.ok THEN r.b ELSE @]
       IN  returned(encode_str(legacy.s))
    /\ UNCHANGED <<hl5_vars, pascal, record, gbm, hasher, item, encoder, packer, cli, writer>>

NextLegacy == LegacyDecode \/ LegacyEncode

SpecLegacy == InitLegacy /\ [][NextLegacy]_vars

\* C20 as stated: decode_str of bytes the codepage does not decode, and
\* encode_str of a string with a character the codepage does not hold,
\* each count one warning and return what the rest of the input gives;
\* neither raises.
C20_LossIsWarning ==
    /\ legacy.pc # "raised"
    /\ legacy.pc = "decoded" =>
          /\ legacy.s = decode_lossy(legacy.b).s
          /\ legacy.n_warn = IF decode_lossy(legacy.b).lost > 0 THEN 1 ELSE 0
    /\ (legacy.pc = "encoded" /\ \E i \in 1..Len(legacy.s) : ~encodable(legacy.s[i])) =>
          /\ legacy.n_warn = 1
          /\ legacy.b = encode_chars(SelectSeq(legacy.s, encodable))

----------------------------------------------------------------------------
(* The first pass of SpecEncoder, pixel by pixel: first is the raster      *)
(* given, decoded[1] the raster that came back.                            *)

\* C22 as stated: when the first pass has encoded and decoded the raster,
\* every pixel that came back is the pixel given, quantised to its word and
\* widened again, and two pixels of different words came back different.
C22_FaithfulUpToQuantisation ==
    Len(encoder.decoded) >= 1 =>
        /\ \A n \in 1..Len(encoder.first.imgdata) :
               encoder.decoded[1].imgdata[n] = to_rgba(pix_to_gbm(encoder.first.imgdata[n]))
        /\ \A n, m \in 1..Len(encoder.first.imgdata) :
               pix_to_gbm(encoder.first.imgdata[n]) # pix_to_gbm(encoder.first.imgdata[m])
                   => encoder.decoded[1].imgdata[n] # encoder.decoded[1].imgdata[m]

\* C23 as stated: from_png never gives the word 0xF81F to a pixel whose
\* alpha is not 0, and no such pixel comes back from the first pass with
\* alpha 0.
C23_OpaqueNeverSentinel ==
    /\ encoder.pc = "image" =>
          \A n \in 1..Len(encoder.png.imgdata) :
              encoder.png.imgdata[n][4] # 0 => word_of(encoder.img, n) # 63519
    /\ Len(encoder.decoded) >= 1 =>
          \A n \in 1..Len(encoder.first.imgdata) :
              encoder.first.imgdata[n][4] # 0 => encoder.decoded[1].imgdata[n][4] # 0

\* A pixel whose channels round to the fields 31, 0, 31 of the word 0xF81F.
rounds_to_magenta(rgba) == rgba[1] >= 251 /\ rgba[2] <= 2 /\ rgba[3] >= 251

\* The palette entry the index stored for a pixel of word w selects: the
\* entry of w at 8 bits, the entry at w's index modulo 16 at 4 bits.
stored_entry(img, w) ==
    LET i == CHOOSE k \in 1..Len(img.palette_data) : img.palette_data[k] = w
    IN  img.palette_data[((i - 1) % (IF img.color_bit = 4 THEN 16 ELSE 256)) + 1]

\* C23, amended: from_png gives the word 0xF81F to a pixel whose alpha is
\* not 0 exactly when its channels round to 31, 0, 31; such a pixel comes
\* back from the first pass with alpha 0 exactly when the palette entry its
\* stored index selects is 0xF81F.
C23_SentinelOnlyForMagenta ==
    /\ encoder.pc = "image" =>
          \A n \in 1..Len(encoder.png.imgdata) :
              encoder.png.imgdata[n][4] # 0 =>
                  (word_of(encoder.img, n) = 63519
                       <=> rounds_to_magenta(encoder.png.imgdata[n]))
    /\ (encoder.pc = "png" /\ Len(encoder.decoded) = 1) =>
          \A n \in 1..Len(encoder.first.imgdata) :
              encoder.first.imgdata[n][4] # 0 =>
                  (encoder.decoded[1].imgdata[n][4] = 0
                       <=> stored_entry(encoder.img,
                                        IF rounds_to_magenta(encoder.first.imgdata[n])
                                        THEN 63519
                                        ELSE pix_to_gbm(encoder.first.imgdata[n])) = 63519)

\* The case of C23: a raster holding the faintest colour of the word 0xF81F
\* and black, both opaque, has been through the first pass; the first came
\* back with alpha 0, the second did not.
C23_Witness ==
    /\ encoder.pc = "png" /\ Len(encoder.decoded) = 1
    /\ \E n, m \in 1..Len(encoder.first.imgdata) :
          /\ encoder.first.imgdata[n] = <<251, 2, 251, 255>>
          /\ encoder.decoded[1].imgdata[n][4] = 0
          /\ encoder.first.imgdata[m] = <<0, 0, 0, 255>>
          /\ encoder.decoded[1].imgdata[m][4] = 255

----------------------------------------------------------------------------
(* A run of main() with -f: the arguments, the lines printed on stdout and *)
(* on stderr, and the warning counter.  The processors are cut to          *)
(* CommonTextProcessor and its last target, as in Spec.                    *)

MaxFiles == 2        \* files of the archive or tree besides the target

\* The target as the archive holds it: up to two strings, "A", U+AC00 or a
\* byte the codepage does not decode.
MainTargets ==
    {pascal_array_bytes(es) : es \in SeqsUpTo({<<1, 65>>, <<2, 176, 161>>, <<1, 255>>}, 2)}

\* n lines of the same text.
lines(n, text) == [i \in 1..n |-> text]

InitMain ==
    /\ HL5ToolNotRun
    /\ pascal = NotRun /\ record = NotRun /\ gbm = NotRun
    /\ hasher = NotRun /\ item = NotRun /\ encoder = NotRun /\ packer = NotRun
    /\ legacy = NotRun /\ writer = NotRun
    /\ \E quiet \in BOOLEAN, raw_only \in BOOLEAN, files \in 0..MaxFiles :
          \/ \E b \in MainTargets :
                cli = [pc |-> "start", action |-> "extract", quiet |-> quiet,
                       raw_only |-> raw_only, files |-> files, target |-> b, doc |-> <<>>,
                       stdout |-> <<>>, stderr |-> <<>>, n_warn |-> 0]
          \/ \E doc \in DocChoices :
                cli = [pc |-> "start", action |-> "create", quiet |-> quiet,
                       raw_only |-> raw_only, files |-> files, target |-> <<>>, doc |-> doc,
                       stdout |-> <<>>, stderr |-> <<>>, n_warn |-> 0]

\* Processor.log and VFSProcessor.log: the line goes to stdout unless quiet.
log(stdout, quiet, msgs) == IF quiet THEN stdout ELSE stdout \o msgs

\* VFSProcessor.disassemble and VFSProcessor.assemble: one log line for
\* each path, the target's included.
MainVfs ==
    /\ \/ cli.pc = "start" /\ (cli.action = "extract" \/ cli.raw_only)
       \/ cli.pc = "vfs"
    /\ cli' = [cli EXCEPT
                  !.pc = IF cli.action = "extract" /\ ~cli.raw_only THEN "procs"
                         ELSE "finish",
                  !.stdout = log(@, cli.quiet,
                                 lines(cli.files + 1,
                                       IF cli.action = "extract" THEN "Extracting:"
                                       ELSE "Packing:"))]
    /\ UNCHANGED <<hl5_vars, pascal, record, gbm, hasher, item, encoder, packer, legacy, writer>>

\* Processor._disassemble of the target: the log line, then disassemble,
\* whose decode_str warns once for each string it cannot decode whole.
MainDisassemble ==
    /\ cli.pc = "procs"
    /\ LET returned(d) ==
               cli' = [cli EXCEPT
                          !.pc = IF d.ok THEN "finish" ELSE "raised",
                          !.stdout = log(@, cli.quiet, <<"Disassemble:">>),
                          !.stderr = @ \o lines(d.n_warn, "Unable to decode bytes")
                                       \o (IF d.ok THEN <<>> ELSE <<"Traceback">>),
                          !.n_warn = @ + d.n_warn]
       IN  returned(CommonText_disassemble(cli.target))
    /\ UNCHANGED <<hl5_vars, pascal, record, gbm, hasher, item, encoder, packer, legacy, writer>>

\* Processor._assemble of the target: the log line, then assemble of the
\* document, which raises at a character the codepage does not hold.
MainAssemble ==
    /\ cli.pc = "start" /\ cli.action = "create" /\ ~cli.raw_only
    /\ LET returned(a) ==
               cli' = [cli EXCEPT
                          !.pc = IF a.ok THEN "vfs" ELSE "raised",
                          !.stdout = log(@, cli.quiet, <<"Assemble:">>),
                          !.stderr = @ \o (IF a.ok THEN <<>> ELSE <<"Traceback">>)]
       IN  returned(CommonText_assemble(cli.doc))
    /\ UNCHANGED <<hl5_vars, pascal, record, gbm, hasher, item, encoder, packer, legacy, writer>>

\* The end of main(): if n_warn: print('Program finished with ...').
MainFinish ==
    /\ cli.pc = "finish"
    /\ cli' = [cli EXCEPT
                  !.pc = "exit",
                  !.stdout = IF cli.n_warn # 0
                             THEN Append(@, "Program finished with warning(s)")
                             ELSE @]
    /\ UNCHANGED <<hl5_vars, pascal, record, gbm, hasher, item, encoder, packer, legacy, writer>>

NextMain == MainVfs \/ MainDisassemble \/ MainAssemble \/ MainFinish

SpecMain == InitMain /\ [][NextMain]_vars

\* C21 as stated: in a run with -q nothing is ever written to stdout, and
\* stderr holds a line for every warning counted.
C21_QuietStdout ==
    (cli.pc # "not run" /\ cli.quiet) =>
        /\ cli.stdout = <<>>
        /\ Len(SelectSeq(cli.stderr, LAMBDA l : l = "Unable to decode bytes")) = cli.n_warn

----------------------------------------------------------------------------
(* One call of write_pascal_str, write_pascal_array or write_ext_array on  *)
(* a new file, with counts and lengths on both sides of what the prefix    *)
(* holds.  The element writer of the arrays is fd.write.                   *)

MaxFill == 1         \* the elements hold the bytes 0..MaxFill or a character each

\* The counts and lengths of the calls: (elements, bytes of each element),
\* the lengths on both sides of what one and two bytes hold.
WriterShapes ==
    {<<0, 0>>, <<1, 0>>, <<1, 1>>, <<2, 1>>, <<2, 3>>, <<1, 255>>, <<1, 256>>, <<2, 255>>,
     <<2, 256>>, <<1, 65535>>, <<1, 65536>>}

\* One element more than the count of a Pascal array holds in 16 bits, and
\* than the count of an ext array holds.
PascalOverCount == <<65536, 0>>
ExtOverCount == <<256, 0>>

\* The strings of the calls: a character n times; U+AC00 takes two bytes.
WriterStrings ==
    {[i \in 1..n |-> c] : n \in {0, 1, 127, 128, 255, 256}, c \in {65, 256 * 176 + 161}}

InitWriter ==
    /\ HL5ToolNotRun
    /\ pascal = NotRun /\ record = NotRun /\ gbm = NotRun
    /\ hasher = NotRun /\ item = NotRun /\ encoder = NotRun /\ packer = NotRun
    /\ legacy = NotRun /\ cli = NotRun
    /\ \/ \E string \in WriterStrings :
             writer = [pc |-> "open", call |-> "write_pascal_str", string |-> string,
                       elements |-> <<>>, wide_spec |-> FALSE, lspec_size |-> 0,
                       out |-> <<>>]
       \/ \E shape \in WriterShapes \cup {PascalOverCount}, fill \in 0..MaxFill,
             wide_spec \in BOOLEAN :
             /\ wide_spec => shape # PascalOverCount
             /\ shape[2] > 256 => fill = 0
             /\ writer = [pc |-> "open", call |-> "write_pascal_array", string |-> <<>>,
                          elements |-> [i \in 1..shape[1] |-> [j \in 1..shape[2] |-> fill]],
                          wide_spec |-> wide_spec, lspec_size |-> 0, out |-> <<>>]
       \/ \E shape \in WriterShapes \cup {ExtOverCount}, fill \in 0..MaxFill,
             lspec_size \in 1..3 :
             /\ shape[2] > 256 => fill = 0
             /\ writer = [pc |-> "open", call |-> "write_ext_array", string |-> <<>>,
                          elements |-> [i \in 1..shape[1] |-> [j \in 1..shape[2] |-> fill]],
                          wide_spec |-> FALSE, lspec_size |-> lspec_size, out |-> <<>>]

\* write_pascal_str(fd, string) on a new file.
WritePascalStr ==
    /\ writer.pc = "open" /\ writer.call = "write_pascal_str"
    /\ LET returned(w) ==
               writer' = [writer EXCEPT !.pc = IF w.ok THEN "written" ELSE "raised",
                                        !.out = w.data]
       IN  returned(write_pascal_str(writer.string))
    /\ UNCHANGED <<hl5_vars, pascal, record, gbm, hasher, item, encoder, packer, legacy, cli>>

\* write_pascal_array(fd, fd.write, elements, wide_spec) on a new file.
WritePascalArray ==
    /\ writer.pc = "open" /\ writer.call = "write_pascal_array"
    /\ LET returned(w) ==
               writer' = [writer EXCEPT !.pc = IF w.ok THEN "written" ELSE "raised",
                                        !.out = w.fd.buf]
       IN  returned(write_pascal_array(open_fd(<<>>),
                                       [i \in 1..Len(writer.elements) |->
                                           Data_write(writer.elements[i])],
                                       writer.wide_spec))
    /\ UNCHANGED <<hl5_vars, pascal, record, gbm, hasher, item, encoder, packer, legacy, cli>>

\* write_ext_array(fd, fd.write, lspec_size, elements) on a new file.
WriteExtArray ==
    /\ writer.pc = "open" /\ writer.call = "write_ext_array"
    /\ LET returned(w) ==
               writer' = [writer EXCEPT !.pc = IF w.ok THEN "written" ELSE "raised",
                                        !.out = w.fd.buf]
       IN  returned(write_ext_array(open_fd(<<>>),
                                    [i \in 1..Len(writer.elements) |->
                                        Data_write(writer.elements[i])],
                                    writer.lspec_size))
    /\ UNCHANGED <<hl5_vars, pascal, record, gbm, hasher, item, encoder, packer, legacy, cli>>

NextWriter == WritePascalStr \/ WritePascalArray \/ WriteExtArray

SpecWriter == InitWriter /\ [][NextWriter]_vars

\* The bytes str.encode gives a string of the legacy codepage: one for an
\* ASCII character, two for any other.
encoded_size(string) ==
    Len(string) + Cardinality({i \in 1..Len(string) : string[i] >= 128})

\* A count or a length of the call is more than its prefix holds.
prefix_overflow ==
    LET longest == IF writer.elements = <<>> THEN 0 ELSE Len(writer.elements[1])
    IN  CASE writer.call = "write_pascal_str" -> encoded_size(writer.string) > 255
          [] writer.call = "write_pascal_array" ->
                ~writer.wide_spec /\ (Len(writer.elements) > 65535 \/ longest > 65535)
          [] writer.call = "write_ext_array" ->
                \/ Len(writer.elements) > 255
                \/ longest > (IF writer.lspec_size = 2 THEN 65535 ELSE 255)

\* C24: a call whose count or length is more than its prefix holds raises;
\* a call that returned wrote the count and the length of the first element
\* in full.
C24_NoSilentWrap ==
    /\ (writer.pc \in {"written", "raised"} /\ prefix_overflow) => writer.pc = "raised"
    /\ writer.pc = "written" =>
          CASE writer.call = "write_pascal_str" ->
                  writer.out[1] = encoded_size(writer.string)
            [] writer.call = "write_pascal_array" ->
                  LET w == spec_size(writer.wide_spec)
                  IN  /\ int_from_bytes(SubSeq(writer.out, 1, w)) = Len(writer.elements)
                      /\ writer.elements # <<>> =>
                             int_from_bytes(SubSeq(writer.out, w + 1, 2 * w))
                                 = Len(writer.elements[1])
            [] writer.call = "write_ext_array" ->
                  LET w == lspec_bytes(writer.lspec_size)
                  IN  /\ writer.out[1] = Len(writer.elements)
                      /\ writer.elements # <<>> =>
                             int_from_bytes(SubSeq(writer.out, 2, 1 + w))
                                 = Len(writer.elements[1])

\* The case of C24: a string of 128 two-byte characters, 256 bytes when
\* encoded, was handed to write_pascal_str, which raised.
C24_Witness ==
    /\ writer.pc = "raised" /\ writer.call = "write_pascal_str"
    /\ Len(writer.string) = 128 /\ prefix_overflow

====
